---- MODULE Spec2Model ----
(***************************************************************************)
(* The Core interpreter: the tokenizer (core.py), the recursive-descent   *)
(* parser, pretty-printer and tree-walking executor (bnf_grammar.py) and   *)
(* the entry point (interpret.py), as one state machine.                   *)
(***************************************************************************)
EXTENDS Integers, Sequences, FiniteSets, TLC

VARIABLES
    src,        \* the Core program file: a sequence of lines of characters
    datafile,   \* the data file: a sequence of lines of characters
    tokenizer,  \* the Tokenizer instance (core.py)
    pc,         \* position of main(), or the way the run ended
    err,        \* the diagnostic the run ended with
    stack,      \* the parser's call stack: pending routine stages
    nodes,      \* parse results handed back by finished routines
    decl_seq_path,  \* Prog.decl_seq_path
    declared_ids,   \* Id._declared_ids
    program,    \* the Prog instance once parsed
    stdout,     \* what was written to standard output
    is_output,  \* IdList._is_output
    data,       \* the data stream: open flag and lines consumed
    todo,       \* the executor's call stack: pending nodes
    hist        \* what the run did, in order (observation only)

vars == <<src, datafile, tokenizer, pc, err, stack, nodes, decl_seq_path,
          declared_ids, program, stdout, is_output, data, todo, hist>>

----------------------------------------------------------------------------
(* enums.py *)

PROGRAM == 1
BEGIN == 2
END == 3
INT == 4
TokIF == 5
TokTHEN == 6
TokELSE == 7
WHILE == 8
LOOP == 9
READ == 10
WRITE == 11
SEMICOLON == 12
COMMA == 13
ASSIGNMENT == 14
LOGICAL_NOT == 15
LEFT_BRACKET == 16
RIGHT_BRACKET == 17
LOGICAL_AND == 18
LOGICAL_OR == 19
LEFT_PARENTHESIS == 20
RIGHT_PARENTHESIS == 21
ADDITION == 22
SUBTRACTION == 23
MULTIPLICATION == 24
NOT_EQUAL == 25
EQUAL == 26
LESS_THAN == 27
GREATER_THAN == 28
LESS_THAN_OR_EQUAL == 29
GREATER_THAN_OR_EQUAL == 30
INTEGER == 31
IDENTIFIER == 32
EOF == 33
ILLEGAL == 34

----------------------------------------------------------------------------
(* core.py: the tables of the tokenizer.  A token's number is its place   *)
(* in RESERVED, or the number of reserved words plus its place in SPECIAL. *)

RESERVED ==
    << <<"p", "r", "o", "g", "r", "a", "m">>,
       <<"b", "e", "g", "i", "n">>,
       <<"e", "n", "d">>,
       <<"i", "n", "t">>,
       <<"i", "f">>,
       <<"t", "h", "e", "n">>,
       <<"e", "l", "s", "e">>,
       <<"w", "h", "i", "l", "e">>,
       <<"l", "o", "o", "p">>,
       <<"r", "e", "a", "d">>,
       <<"w", "r", "i", "t", "e">> >>

SPECIAL ==
    << <<";">>,
       <<",">>,
       <<"=">>,
       <<"!">>,
       <<"[">>,
       <<"]">>,
       <<"&", "&">>,
       <<"|", "|">>,
       <<"(">>,
       <<")">>,
       <<"+">>,
       <<"-">>,
       <<"*">>,
       <<"!", "=">>,
       <<"=", "=">>,
       <<"<">>,
       <<">">>,
       <<"<", "=">>,
       <<">", "=">> >>

WHITE_SPACE == {" ", "\t", "\r", "\n"}

DECIMAL_DIGITS == <<"0", "1", "2", "3", "4", "5", "6", "7", "8", "9">>

SPECIAL_INTERMEDIATE_STATES == {"&", "|"}

SPECIAL_AMBIGUOUS_FINAL_STATES == {"=", "!", "<", ">"}

CAPITALS ==
    {"A", "B", "C", "D", "E", "F", "G", "H", "I", "J", "K", "L", "M",
     "N", "O", "P", "Q", "R", "S", "T", "U", "V", "W", "X", "Y", "Z"}

Range(s) == {s[i] : i \in DOMAIN s}

Digits == Range(DECIMAL_DIGITS)

\* set([word[0] for word in list(RESERVED.values())])
ReservedFirst == {RESERVED[i][1] : i \in DOMAIN RESERVED}

\* set([symbol[0] for symbol in list(SPECIAL.values())])
SpecialFirst == {SPECIAL[i][1] : i \in DOMAIN SPECIAL}

\* list(d.values()).index(token), mapped through the enumeration
IndexOf(table, token) == CHOOSE i \in DOMAIN table : table[i] = token

\* token == word[:len(token)]
IsPrefix(token, word) ==
    /\ Len(token) <= Len(word)
    /\ \A i \in 1..Len(token) : token[i] = word[i]

----------------------------------------------------------------------------
(* core.py: Tokenizer._tokenize_line and the routines it calls.  The scan  *)
(* state d holds the attributes the loop works on.                         *)

NoMessage == [line |-> 0, text |-> <<>>]

\* Tokenizer._illegal_token
IllegalToken(d, line_number) ==
    [d EXCEPT !.error_message = [line |-> line_number, text |-> d.token],
              !.tokens = Append(@, ILLEGAL)]

\* Tokenizer._legal_token
LegalToken(d, token_type) ==
    LET number == CASE token_type = "reserved" -> IndexOf(RESERVED, d.token)
                    [] token_type = "special" ->
                           Len(RESERVED) + IndexOf(SPECIAL, d.token)
                    [] token_type = "integer" -> INTEGER
                    [] token_type = "identifier" -> IDENTIFIER
        toks == Append(d.tokens, number)
    IN [d EXCEPT
          !.is_reserved = FALSE, !.is_special = FALSE,
          !.is_integer = FALSE, !.is_identifier = FALSE,
          !.tokens = toks,
          !.integers = IF token_type = "integer"
                       THEN (Len(toks) - 1 :> d.token) @@ @ ELSE @,
          !.identifiers = IF token_type = "identifier"
                          THEN (Len(toks) - 1 :> d.token) @@ @ ELSE @,
          !.token = <<>>]

\* _token_delimiter that takes any character as the end of a token
Delimited_Always(line, i) == TRUE

\* the conditions under which _token_delimiter calls _legal_token; the
\* character after line[i] is white space or begins a special symbol
Delimited(line, i) ==
    \/ i = Len(line)
    \/ line[i + 1] \in WHITE_SPACE
    \/ /\ line[i + 1] \in SpecialFirst
       /\ \/ line[i + 1] \notin SPECIAL_INTERMEDIATE_STATES
          \/ i + 2 <= Len(line) /\ line[i + 1] = line[i + 2]

\* Tokenizer._token_delimiter, at the character line[i] (i counts from 1)
TokenDelimiter(d, token_type, line, i) ==
    IF Delimited(line, i) THEN LegalToken(d, token_type) ELSE d

\* 'if self._end_of_line: self._is_reserved = False'
ReservedEnd(d, line, i) ==
    IF i = Len(line) THEN [d EXCEPT !.is_reserved = FALSE] ELSE d

\* the reserved-word block that takes a reserved word as soon as it is
\* spelled, whatever comes after it
ReservedBlock_Undelimited(d, line, i) ==
    IF ~d.is_reserved THEN d
    ELSE IF \E w \in DOMAIN RESERVED : IsPrefix(d.token, RESERVED[w])
    THEN ReservedEnd(IF \E w \in DOMAIN RESERVED : d.token = RESERVED[w]
                     THEN LegalToken(d, "reserved") ELSE d,
                     line, i)
    ELSE [d EXCEPT !.is_reserved = FALSE]

\* the 'if self._is_reserved:' block of the loop body
ReservedBlock(d, line, i) ==
    IF ~d.is_reserved THEN d
    ELSE IF \E w \in DOMAIN RESERVED : IsPrefix(d.token, RESERVED[w])
    THEN ReservedEnd(IF \E w \in DOMAIN RESERVED : d.token = RESERVED[w]
                     THEN TokenDelimiter(d, "reserved", line, i) ELSE d,
                     line, i)
    ELSE [d EXCEPT !.is_reserved = FALSE]

\* 'if self._token in SPECIAL_INTERMEDIATE_STATES:' and what it encloses
SpecialIntermediate(d, line, i) ==
    IF Len(d.token) = 1 /\ d.token[1] \in SPECIAL_INTERMEDIATE_STATES
    THEN IF i # Len(line)
         THEN IF d.token[1] = line[i + 1]
              THEN [d EXCEPT !.special_final_state = FALSE]
              ELSE [d EXCEPT !.token = Append(@, line[i + 1]),
                             !.is_special = FALSE,
                             !.special_final_state = FALSE]
         ELSE [d EXCEPT !.is_special = FALSE, !.special_final_state = FALSE]
    ELSE d

\* the block for '=', '!', '<' and '>' without the lookahead for '='
SpecialAmbiguous_NoLookahead(d, line, i) == d

\* 'if self._token in SPECIAL_AMBIGUOUS_FINAL_STATES:' and what it encloses
SpecialAmbiguous(d, line, i) ==
    IF /\ Len(d.token) = 1
       /\ d.token[1] \in SPECIAL_AMBIGUOUS_FINAL_STATES
       /\ i # Len(line)
       /\ line[i + 1] = "="
    THEN [d EXCEPT !.special_final_state = FALSE]
    ELSE d

\* 'if special_final_state: self._legal_token('special')'
SpecialFinal(d) ==
    IF d.special_final_state THEN LegalToken(d, "special") ELSE d

\* the 'if self._is_special:' block of the loop body
SpecialBlock(d, line, i) ==
    IF ~d.is_special THEN d
    ELSE SpecialFinal(IF ~d.special_final_state
                      THEN [d EXCEPT !.special_final_state = TRUE]
                      ELSE SpecialAmbiguous(SpecialIntermediate(d, line, i),
                                            line, i))

\* 'if self._is_integer:' or 'if self._is_identifier:' after the call of
\* _token_delimiter: the token takes the next character, the flag is cleared
RunOn(d, token_type, line, i) ==
    IF (IF token_type = "integer" THEN d.is_integer ELSE d.is_identifier)
    THEN [d EXCEPT !.token = Append(@, line[i + 1]),
                   !.is_integer = IF token_type = "integer" THEN FALSE ELSE @,
                   !.is_identifier =
                       IF token_type = "identifier" THEN FALSE ELSE @]
    ELSE d

\* the rest of the 'if self._is_integer:' and 'if self._is_identifier:'
\* blocks, once the lookahead has not continued the loop
RunBlock(d, token_type, line, i) ==
    RunOn(TokenDelimiter(d, token_type, line, i), token_type, line, i)

\* the check for an illegal token that ends the loop body; .stop is set by
\* the break
IllegalCheck(d, line_number) ==
    IF /\ d.token # <<>>
       /\ d.is_reserved = d.is_special
       /\ d.is_special = d.is_integer
       /\ d.is_integer = d.is_identifier
    THEN [IllegalToken(d, line_number) EXCEPT !.stop = TRUE]
    ELSE d

\* the identifier block with a lookahead that goes on at capitals only
IdentifierBlock_CapitalsOnly(d, line, i, line_number) ==
    IF d.is_identifier /\ i # Len(line) /\ line[i + 1] \in CAPITALS
    THEN d
    ELSE IllegalCheck(IF d.is_identifier
                      THEN RunBlock(d, "identifier", line, i) ELSE d,
                      line_number)

\* the 'if self._is_identifier:' block and what follows it
IdentifierBlock(d, line, i, line_number) ==
    IF d.is_identifier /\ i # Len(line)
       /\ line[i + 1] \in Digits \cup CAPITALS
    THEN d
    ELSE IllegalCheck(IF d.is_identifier
                      THEN RunBlock(d, "identifier", line, i) ELSE d,
                      line_number)

\* the 'if self._is_integer:' block and what follows it
IntegerBlock(d, line, i, line_number) ==
    IF d.is_integer /\ i # Len(line) /\ line[i + 1] \in Digits
    THEN d
    ELSE IdentifierBlock(IF d.is_integer
                         THEN RunBlock(d, "integer", line, i) ELSE d,
                         line, i, line_number)

\* 'if not self._token:' without its continue, then 'self._token += char'
StartToken(d, char) ==
    [d EXCEPT !.is_reserved = IF d.token = <<>>
                              THEN char \in ReservedFirst ELSE @,
              !.is_special = IF d.token = <<>>
                             THEN char \in SpecialFirst ELSE @,
              !.is_integer = IF d.token = <<>> THEN char \in Digits ELSE @,
              !.is_identifier = IF d.token = <<>>
                                THEN char \in CAPITALS ELSE @,
              !.token = Append(@, char),
              !.is_line_all_white = FALSE]

\* one iteration of 'for self._char_index, char in enumerate(self._line)'
\* at line[i]
ScanChar(d, line, i, line_number) ==
    IF d.token = <<>> /\ line[i] \in WHITE_SPACE THEN d
    ELSE IntegerBlock(SpecialBlock(ReservedBlock(StartToken(d, line[i]),
                                                 line, i),
                                   line, i),
                      line, i, line_number)

RECURSIVE ScanLine(_, _, _, _)
\* the for loop of _tokenize_line from line[i] on
ScanLine(d, line, i, line_number) ==
    IF i > Len(line) \/ d.stop THEN d
    ELSE ScanLine(ScanChar(d, line, i, line_number), line, i + 1, line_number)

\* the attributes _tokenize_line resets before it reads a line
FreshScan ==
    [token |-> <<>>, tokens |-> <<>>, integers |-> <<>>, identifiers |-> <<>>,
     is_reserved |-> FALSE, is_special |-> FALSE, is_integer |-> FALSE,
     is_identifier |-> FALSE, special_final_state |-> TRUE,
     is_line_all_white |-> TRUE, error_message |-> NoMessage, stop |-> FALSE]

\* self._stream.readline(): the next line, or the empty string at the end
ReadLine(file, pos) == IF pos < Len(file) THEN file[pos + 1] ELSE <<>>

\* Tokenizer._end_of_file, with the attributes _tokenize_line has set
EndOfFile(t) ==
    [t EXCEPT !.tokens = <<EOF>>, !.integers = <<>>, !.identifiers = <<>>,
              !.token_index = 0, !.line_number = @ + 1,
              !.stream_open = FALSE, !.eof = TRUE, !.all_white = FALSE]

\* the tokenizer after the for loop has left the scan state d
Scanned(t, d) ==
    [t EXCEPT !.tokens = d.tokens, !.integers = d.integers,
              !.identifiers = d.identifiers, !.token_index = 0,
              !.line_number = @ + 1, !.stream_pos = @ + 1,
              !.error_message = d.error_message, !.eof = FALSE,
              !.all_white = d.is_line_all_white]

RECURSIVE TokenizeLine(_, _)
\* the recursion on a line of white space that does not count that line
Recurse_Uncounted(t, file) ==
    IF t.all_white
    THEN TokenizeLine([t EXCEPT !.line_number = @ - 1], file)
    ELSE t

\* 'if not self._eof and is_line_all_white: self._tokenize_line()'
Recurse(t, file) ==
    IF t.all_white THEN TokenizeLine(t, file) ELSE t

\* Tokenizer._tokenize_line.  Reading a closed stream raises ValueError
\* after the token list has been emptied.
TokenizeLine(t, file) ==
    IF ~t.stream_open
    THEN [t EXCEPT !.tokens = <<>>, !.integers = <<>>, !.identifiers = <<>>,
                   !.token_index = 0, !.all_white = FALSE,
                   !.raised = "ValueError"]
    ELSE IF ReadLine(file, t.stream_pos) = <<>>
    THEN EndOfFile(t)
    ELSE Recurse(Scanned(t, ScanLine([FreshScan EXCEPT !.error_message =
                                                           t.error_message],
                                     ReadLine(file, t.stream_pos), 1,
                                     t.line_number + 1)),
                 file)

\* Tokenizer.__init__
NewTokenizer(file) ==
    TokenizeLine([stream_open |-> TRUE, stream_pos |-> 0, line_number |-> 0,
                  error_message |-> NoMessage, tokens |-> <<>>,
                  integers |-> <<>>, identifiers |-> <<>>, token_index |-> 0,
                  eof |-> FALSE, all_white |-> FALSE, raised |-> "none"],
                 file)

\* self._tokens[self._token_index]
CurrentToken(t) == t.tokens[t.token_index + 1]

\* get_token that raises as soon as the line holds an illegal token
GetTokenRaises_Eager(t) == ILLEGAL \in Range(t.tokens)

\* Tokenizer.get_token raises SystemExit on an illegal token
GetTokenRaises(t) == CurrentToken(t) = ILLEGAL

\* Tokenizer.get_token, when it raises: the stream is closed first
GetTokenExit(t) == [t EXCEPT !.stream_open = FALSE, !.raised = "SystemExit"]

\* Tokenizer.skip_token that reads the next line one call late
SkipToken_OneLate(t, file) ==
    IF t.token_index < Len(t.tokens)
    THEN [t EXCEPT !.token_index = @ + 1]
    ELSE TokenizeLine(t, file)

\* Tokenizer.skip_token
SkipToken(t, file) ==
    IF t.token_index < Len(t.tokens) - 1
    THEN [t EXCEPT !.token_index = @ + 1]
    ELSE TokenizeLine(t, file)

\* int(string_int): the value of a run of decimal digits
RECURSIVE IntOfDigits(_)
IntOfDigits(s) ==
    IF s = <<>> THEN 0
    ELSE 10 * IntOfDigits(SubSeq(s, 1, Len(s) - 1))
         + (IndexOf(DECIMAL_DIGITS, s[Len(s)]) - 1)

\* Tokenizer.int_val
IntVal(t) == IntOfDigits(t.integers[t.token_index])

\* Tokenizer.id_name
IdName(t) == t.identifiers[t.token_index]

\* Tokenizer.shutdown that leaves the stream as it is
Shutdown_LeavesOpen(t) == t

\* Tokenizer.shutdown
Shutdown(t) == [t EXCEPT !.stream_open = FALSE]

----------------------------------------------------------------------------
(* bnf_grammar.py: values shared by the parser and the executor *)

None == [k |-> "None"]

IsNone(n) == n.k = "None"

NoErr == [kind |-> "none", cause |-> "", name |-> <<>>, line |-> 0, stmt |-> 0]

Err(kind, cause, name, line, stmt) ==
    [kind |-> kind, cause |-> cause, name |-> name, line |-> line,
     stmt |-> stmt]

\* a pending stage s of routine r, with the routine's arguments and locals
Frame(r, s, line, lvl, alt) ==
    [r |-> r, s |-> s, line |-> line, lvl |-> lvl, alt |-> alt]

Call(r, line, lvl) == Frame(r, 1, line, lvl, "")

Push(ns, n) == <<n>> \o ns

\* Id.__init__
NewId(name) ==
    [name |-> name, initialized |-> FALSE, value |-> 0, line |-> <<>>]

DeclaredNames(ids) == {ids[i].name : i \in DOMAIN ids}

\* get_token raising SystemExit with the tokenizer's error message
LexicalExit(t) ==
    [t |-> GetTokenExit(t),
     err |-> Err("lexical", "illegal token", t.error_message.text,
                 t.error_message.line, 0)]

\* Tokenizer.token_type
TokenType(t) ==
    LET n == CurrentToken(t) IN
    CASE n = INTEGER -> "integer"
      [] n = IDENTIFIER -> "identifier"
      [] n = EOF -> "eof"
      [] n <= Len(RESERVED) -> "reserved word"
      [] OTHER -> "special symbol"

\* context_free_error_checker that takes an illegal token for the token it
\* expects and skips it
context_free_error_checker_PassesIllegal(t, file, expected_token_number, expected_token_type) ==
    IF GetTokenRaises(t) THEN [t |-> SkipToken(t, file), err |-> NoErr]
    ELSE IF CurrentToken(t) # expected_token_number
    THEN [t |-> Shutdown(t),
          err |-> Err("context-free", TokenType(t), <<>>, t.line_number, 0)]
    ELSE IF expected_token_type
              \in {"reserved word", "special symbol", "integer"}
    THEN [t |-> SkipToken(t, file), err |-> NoErr]
    ELSE [t |-> t, err |-> NoErr]

\* context_free_error_checker: the tokenizer it leaves and the error, if any
context_free_error_checker(t, file, expected_token_number, expected_token_type) ==
    IF GetTokenRaises(t) THEN LexicalExit(t)
    ELSE IF CurrentToken(t) # expected_token_number
    THEN [t |-> Shutdown(t),
          err |-> Err("context-free", TokenType(t), <<>>, t.line_number, 0)]
    ELSE IF expected_token_type
              \in {"reserved word", "special symbol", "integer"}
    THEN [t |-> SkipToken(t, file), err |-> NoErr]
    ELSE [t |-> t, err |-> NoErr]

RECURSIVE CheckAll(_, _, _)
\* the calls of context_free_error_checker that follow one that returned c
CheckRest(c, file, expected) ==
    IF c.err.kind # "none" \/ c.t.raised = "ValueError" THEN c
    ELSE CheckAll(c.t, file, expected)

\* consecutive calls of context_free_error_checker; the first error exits
CheckAll(t, file, expected) ==
    IF expected = <<>> THEN [t |-> t, err |-> NoErr]
    ELSE CheckRest(context_free_error_checker(t, file, expected[1][1],
                                              expected[1][2]),
                   file, Tail(expected))

Reserved(n) == <<n, "reserved word">>

Symbol(n) == <<n, "special symbol">>

\* What one stage of a parse routine does with the tokenizer, in the order
\* the routines do it: get_token when peek, then the calls of
\* context_free_error_checker listed in expect, then the context-sensitive
\* error for the name cs or skip_token when skip.  And what it leaves: the
\* stages that take the place of this one, the results stack,
\* Id._declared_ids and Prog.decl_seq_path.
Go(push, ns) ==
    [peek |-> FALSE, expect |-> <<>>, skip |-> FALSE, cs |-> <<>>,
     push |-> push, nodes |-> ns, ids |-> declared_ids,
     dsp |-> decl_seq_path]

\* a stage that calls skip_token
Skip(push, ns) == [Go(push, ns) EXCEPT !.skip = TRUE]

\* a stage that begins with calls of context_free_error_checker
Checked(expected, push, ns) == [Go(push, ns) EXCEPT !.expect = expected]

\* context_free_error_checker() with no arguments: no token is number 0
Unexpected == Checked(<<<<0, "multiple">> >>, <<>>, nodes)

\* a stage that begins with get_token and takes a decision on the token
Peek(o) == [o EXCEPT !.peek = TRUE]

\* a stage that ends in Id._context_sensitive_error
ContextSensitive(id_name) == [Go(<<>>, nodes) EXCEPT !.cs = id_name]

----------------------------------------------------------------------------
(* bnf_grammar.py: the parse routines.  Each is cut into stages at the     *)
(* calls of other parse routines; f is the stage at the top of the stack.  *)

\* Prog.parse without the check for the end of the file after 'end'
Prog_parse_NoEof(f) ==
    CASE f.s = 1 ->
           Checked(<<Reserved(PROGRAM)>>,
                   <<Call("DeclSeq", 0, 0), Frame("Prog", 2, 0, 0, "")>>,
                   nodes)
      [] f.s = 2 ->
           [Checked(<<Reserved(BEGIN)>>,
                    <<Call("StmtSeq", 0, 1), Frame("Prog", 3, 0, 0, "")>>,
                    nodes)
            EXCEPT !.dsp = FALSE]
      [] f.s = 3 ->
           Checked(<<Reserved(END)>>, <<>>,
                   Push(SubSeq(nodes, 3, Len(nodes)),
                        [k |-> "Prog", decl_seq |-> nodes[2],
                         stmt_seq |-> nodes[1]]))

\* Prog.parse that consumes the end of the file like a reserved word
Prog_parse_SkipsEof(f) ==
    CASE f.s = 1 ->
           Checked(<<Reserved(PROGRAM)>>,
                   <<Call("DeclSeq", 0, 0), Frame("Prog", 2, 0, 0, "")>>,
                   nodes)
      [] f.s = 2 ->
           [Checked(<<Reserved(BEGIN)>>,
                    <<Call("StmtSeq", 0, 1), Frame("Prog", 3, 0, 0, "")>>,
                    nodes)
            EXCEPT !.dsp = FALSE]
      [] f.s = 3 ->
           Checked(<<Reserved(END), Reserved(EOF)>>, <<>>,
                   Push(SubSeq(nodes, 3, Len(nodes)),
                        [k |-> "Prog", decl_seq |-> nodes[2],
                         stmt_seq |-> nodes[1]]))

\* Prog.parse
Prog_parse(f) ==
    CASE f.s = 1 ->
           Checked(<<Reserved(PROGRAM)>>,
                   <<Call("DeclSeq", 0, 0), Frame("Prog", 2, 0, 0, "")>>,
                   nodes)
      [] f.s = 2 ->
           [Checked(<<Reserved(BEGIN)>>,
                    <<Call("StmtSeq", 0, 1), Frame("Prog", 3, 0, 0, "")>>,
                    nodes)
            EXCEPT !.dsp = FALSE]
      [] f.s = 3 ->
           Checked(<<Reserved(END), <<EOF, "eof">> >>, <<>>,
                   Push(SubSeq(nodes, 3, Len(nodes)),
                        [k |-> "Prog", decl_seq |-> nodes[2],
                         stmt_seq |-> nodes[1]]))

\* DeclSeq.parse that, after the last declaration, goes round between two
\* stages without a call of skip_token
DeclSeq_parse_GoesRound(f) ==
    CASE f.s = 1 ->
           Go( <<Call("Decl", 0, 0), Frame("DeclSeq", 2, 0, 0, "")>>,
              nodes)
      [] f.s = 2 ->
           Peek(IF CurrentToken(tokenizer) = INT
                THEN Go(
                        <<Call("DeclSeq", 0, 0),
                          Frame("DeclSeq", 3, 0, 0, "")>>, nodes)
                ELSE Go( <<Frame("DeclSeq", 4, 0, 0, "")>>, nodes))
      [] f.s = 3 ->
           Go( <<>>,
              Push(SubSeq(nodes, 3, Len(nodes)),
                   [k |-> "DeclSeq", decl |-> nodes[2],
                    decl_seq |-> nodes[1]]))
      [] f.s = 4 ->
           Go( <<Frame("DeclSeq", 2, 0, 0, "")>>, nodes)

\* DeclSeq.parse
DeclSeq_parse(f) ==
    CASE f.s = 1 ->
           Go( <<Call("Decl", 0, 0), Frame("DeclSeq", 2, 0, 0, "")>>,
              nodes)
      [] f.s = 2 ->
           Peek(IF CurrentToken(tokenizer) = INT
                THEN Go(
                        <<Call("DeclSeq", 0, 0),
                          Frame("DeclSeq", 3, 0, 0, "")>>, nodes)
                ELSE Go( <<>>,
                        Push(Tail(nodes),
                             [k |-> "DeclSeq", decl |-> nodes[1],
                              decl_seq |-> None])))
      [] f.s = 3 ->
           Go( <<>>,
              Push(SubSeq(nodes, 3, Len(nodes)),
                   [k |-> "DeclSeq", decl |-> nodes[2],
                    decl_seq |-> nodes[1]]))

\* Decl.parse
Decl_parse(f) ==
    CASE f.s = 1 ->
           Checked(<<Reserved(INT)>>,
                   <<Call("IdList", 0, 0), Frame("Decl", 2, 0, 0, "")>>,
                   nodes)
      [] f.s = 2 ->
           Checked(<<Symbol(SEMICOLON)>>, <<>>,
                   Push(Tail(nodes),
                        [k |-> "Decl", id_list |-> nodes[1]]))

\* self._id.line[self._line] = __main__.tokenizer.line_number
RecordLine(ids, ref, key, line_number) ==
    [ids EXCEPT ![ref].line = (key :> line_number) @@ @]

\* IdList.parse; f.line is self._line (0 for None)
IdList_parse(f) ==
    CASE f.s = 1 ->
           Go(
              <<Call("Id", 0, 0), Frame("IdList", 2, f.line, 0, "")>>, nodes)
      [] f.s = 2 ->
           LET ids == RecordLine(declared_ids, nodes[1].ref, f.line,
                                 tokenizer.line_number)
           IN [Peek(IF CurrentToken(tokenizer) = COMMA
                    THEN Skip(
                            <<Call("IdList", f.line, 0),
                              Frame("IdList", 3, f.line, 0, "")>>, nodes)
                    ELSE Go( <<>>,
                            Push(Tail(nodes),
                                 [k |-> "IdList", id |-> nodes[1].ref,
                                  id_list |-> None, line |-> f.line])))
               EXCEPT !.ids = ids]
      [] f.s = 3 ->
           Go( <<>>,
              Push(SubSeq(nodes, 3, Len(nodes)),
                   [k |-> "IdList", id |-> nodes[2].ref,
                    id_list |-> nodes[1], line |-> f.line]))

\* Id._context_sensitive_error with the adverb of the declarations only
ContextSensitiveError_Already(t, id_name, path) ==
    [t |-> Shutdown(t),
     err |-> Err("context-sensitive", "already", id_name, t.line_number, 0)]

\* Id._context_sensitive_error
ContextSensitiveError(t, id_name, path) ==
    [t |-> Shutdown(t),
     err |-> Err("context-sensitive",
                 IF path THEN "already" ELSE "not", id_name,
                 t.line_number, 0)]

\* Id.parse that declares a name again without looking for it in the table
Id_parse_Redeclare(f) ==
    IF GetTokenRaises(tokenizer) \/ CurrentToken(tokenizer) # IDENTIFIER
    THEN Checked(<<<<IDENTIFIER, "identifier">> >>, <<>>, nodes)
    ELSE IF decl_seq_path
    THEN [Skip(<<>>, Push(nodes, [k |-> "Id",
                                  ref |-> Len(declared_ids) + 1]))
          EXCEPT !.expect = <<<<IDENTIFIER, "identifier">> >>,
                 !.ids = Append(declared_ids, NewId(IdName(tokenizer)))]
    ELSE IF \E i \in DOMAIN declared_ids :
                declared_ids[i].name = IdName(tokenizer)
         THEN [Skip(<<>>,
                    Push(nodes,
                         [k |-> "Id",
                          ref |-> CHOOSE i \in DOMAIN declared_ids :
                                    /\ declared_ids[i].name
                                           = IdName(tokenizer)
                                    /\ \A j \in 1..(i - 1) :
                                          declared_ids[j].name
                                              # IdName(tokenizer)]))
               EXCEPT !.expect = <<<<IDENTIFIER, "identifier">> >>]
         ELSE [ContextSensitive(IdName(tokenizer))
               EXCEPT !.expect = <<<<IDENTIFIER, "identifier">> >>]

\* Id.parse that declares, in the statements, a name the table lacks
Id_parse_AutoDeclare(f) ==
    IF GetTokenRaises(tokenizer) \/ CurrentToken(tokenizer) # IDENTIFIER
    THEN Checked(<<<<IDENTIFIER, "identifier">> >>, <<>>, nodes)
    ELSE IF \E i \in DOMAIN declared_ids :
                declared_ids[i].name = IdName(tokenizer)
    THEN IF decl_seq_path
         THEN [ContextSensitive(IdName(tokenizer))
               EXCEPT !.expect = <<<<IDENTIFIER, "identifier">> >>]
         ELSE [Skip(<<>>,
                    Push(nodes,
                         [k |-> "Id",
                          ref |-> CHOOSE i \in DOMAIN declared_ids :
                                    /\ declared_ids[i].name
                                           = IdName(tokenizer)
                                    /\ \A j \in 1..(i - 1) :
                                          declared_ids[j].name
                                              # IdName(tokenizer)]))
               EXCEPT !.expect = <<<<IDENTIFIER, "identifier">> >>]
    ELSE [Skip(<<>>, Push(nodes, [k |-> "Id",
                                  ref |-> Len(declared_ids) + 1]))
          EXCEPT !.expect = <<<<IDENTIFIER, "identifier">> >>,
                 !.ids = Append(declared_ids, NewId(IdName(tokenizer)))]

\* Id.parse
Id_parse(f) ==
    IF GetTokenRaises(tokenizer) \/ CurrentToken(tokenizer) # IDENTIFIER
    THEN Checked(<<<<IDENTIFIER, "identifier">> >>, <<>>, nodes)
    ELSE IF decl_seq_path
    THEN IF IdName(tokenizer) \notin DeclaredNames(declared_ids)
         THEN [Skip(<<>>, Push(nodes, [k |-> "Id",
                                       ref |-> Len(declared_ids) + 1]))
               EXCEPT !.expect = <<<<IDENTIFIER, "identifier">> >>,
                      !.ids = Append(declared_ids,
                                     NewId(IdName(tokenizer)))]
         ELSE [ContextSensitive(IdName(tokenizer))
               EXCEPT !.expect = <<<<IDENTIFIER, "identifier">> >>]
    ELSE IF \E i \in DOMAIN declared_ids :
                declared_ids[i].name = IdName(tokenizer)
         THEN [Skip(<<>>,
                    Push(nodes,
                         [k |-> "Id",
                          ref |-> CHOOSE i \in DOMAIN declared_ids :
                                    /\ declared_ids[i].name
                                           = IdName(tokenizer)
                                    /\ \A j \in 1..(i - 1) :
                                          declared_ids[j].name
                                              # IdName(tokenizer)]))
               EXCEPT !.expect = <<<<IDENTIFIER, "identifier">> >>]
         ELSE [ContextSensitive(IdName(tokenizer))
               EXCEPT !.expect = <<<<IDENTIFIER, "identifier">> >>]

\* StmtSeq.parse that takes a sequence of no statement
StmtSeq_parse_MayBeEmpty(f) ==
    CASE f.s = 1 ->
           IF CurrentToken(tokenizer) \in {END, TokELSE}
           THEN Go(<<>>,
                   Push(nodes,
                        [k |-> "StmtSeq", stmt |-> None, stmt_seq |-> None,
                         indent_level |-> f.lvl]))
           ELSE Go(
                   <<Call("Stmt", 0, f.lvl),
                     Frame("StmtSeq", 2, 0, f.lvl, "")>>,
                   nodes)
      [] f.s = 2 ->
           Peek(IF CurrentToken(tokenizer) \notin {END, TokELSE}
                THEN Go(
                        <<Call("StmtSeq", 0, f.lvl),
                          Frame("StmtSeq", 3, 0, f.lvl, "")>>, nodes)
                ELSE Go( <<>>,
                        Push(Tail(nodes),
                             [k |-> "StmtSeq", stmt |-> nodes[1],
                              stmt_seq |-> None, indent_level |-> f.lvl])))
      [] f.s = 3 ->
           Go( <<>>,
              Push(SubSeq(nodes, 3, Len(nodes)),
                   [k |-> "StmtSeq", stmt |-> nodes[2],
                    stmt_seq |-> nodes[1], indent_level |-> f.lvl]))

\* StmtSeq.parse; f.lvl is self._indent_level
StmtSeq_parse(f) ==
    CASE f.s = 1 ->
           Go(
              <<Call("Stmt", 0, f.lvl), Frame("StmtSeq", 2, 0, f.lvl, "")>>,
              nodes)
      [] f.s = 2 ->
           Peek(IF CurrentToken(tokenizer) \notin {END, TokELSE}
                THEN Go(
                        <<Call("StmtSeq", 0, f.lvl),
                          Frame("StmtSeq", 3, 0, f.lvl, "")>>, nodes)
                ELSE Go( <<>>,
                        Push(Tail(nodes),
                             [k |-> "StmtSeq", stmt |-> nodes[1],
                              stmt_seq |-> None, indent_level |-> f.lvl])))
      [] f.s = 3 ->
           Go( <<>>,
              Push(SubSeq(nodes, 3, Len(nodes)),
                   [k |-> "StmtSeq", stmt |-> nodes[2],
                    stmt_seq |-> nodes[1], indent_level |-> f.lvl]))

\* Stmt.parse; f.alt names the alternative that was constructed
Stmt_parse(f) ==
    CASE f.s = 1 ->
           Peek(LET n == CurrentToken(tokenizer)
                    alt == CASE n = IDENTIFIER -> "Assign"
                             [] n = TokIF -> "If"
                             [] n = WHILE -> "Loop"
                             [] n = READ -> "In"
                             [] n = WRITE -> "Out"
                             [] OTHER -> ""
                IN IF alt = "" THEN Unexpected
                   ELSE Go(
                           <<Call(alt, 0, f.lvl),
                             Frame("Stmt", 2, 0, f.lvl, alt)>>, nodes))
      [] f.s = 2 ->
           Go( <<>>,
              Push(Tail(nodes),
                   [k |-> "Stmt", alt |-> f.alt, node |-> nodes[1],
                    indent_level |-> f.lvl]))

\* In.parse and Out.parse: the same code but for the reserved word
InOut_parse(f, word) ==
    CASE f.s = 1 ->
           LET line == tokenizer.line_number IN
           Checked(<<Reserved(word)>>,
                   <<Call("IdList", line, 0), Frame(f.r, 2, line, 0, "")>>,
                   nodes)
      [] f.s = 2 ->
           Checked(<<Symbol(SEMICOLON)>>, <<>>,
                   Push(Tail(nodes),
                        [k |-> f.r, id_list |-> nodes[1],
                         line |-> f.line]))

\* In.parse
In_parse(f) == InOut_parse(f, READ)

\* Out.parse
Out_parse(f) == InOut_parse(f, WRITE)

\* Loop.parse
Loop_parse(f) ==
    CASE f.s = 1 ->
           LET line == tokenizer.line_number IN
           Checked(<<Reserved(WHILE)>>,
                   <<Call("Cond", line, 0),
                     Frame("Loop", 2, line, f.lvl, "")>>, nodes)
      [] f.s = 2 ->
           Checked(<<Reserved(LOOP)>>,
                   <<Call("StmtSeq", 0, f.lvl + 2),
                     Frame("Loop", 3, f.line, f.lvl, "")>>, nodes)
      [] f.s = 3 ->
           Checked(<<Reserved(END), Symbol(SEMICOLON)>>, <<>>,
                   Push(SubSeq(nodes, 3, Len(nodes)),
                        [k |-> "Loop", condition |-> nodes[2],
                         stmt_seq |-> nodes[1], line |-> f.line,
                         indent_level |-> f.lvl]))

\* If.parse
If_parse(f) ==
    CASE f.s = 1 ->
           LET line == tokenizer.line_number IN
           Checked(<<Reserved(TokIF)>>,
                   <<Call("Cond", line, 0),
                     Frame("If", 2, line, f.lvl, "")>>, nodes)
      [] f.s = 2 ->
           Checked(<<Reserved(TokTHEN)>>,
                   <<Call("StmtSeq", 0, f.lvl + 1),
                     Frame("If", 3, f.line, f.lvl, "")>>, nodes)
      [] f.s = 3 ->
           Peek(IF CurrentToken(tokenizer) = TokELSE
                THEN Skip(
                        <<Call("StmtSeq", 0, f.lvl + 1),
                          Frame("If", 4, f.line, f.lvl, "")>>, nodes)
                ELSE Checked(<<Reserved(END), Symbol(SEMICOLON)>>, <<>>,
                             Push(SubSeq(nodes, 3, Len(nodes)),
                                  [k |-> "If", condition |-> nodes[2],
                                   then_stmt_seq |-> nodes[1],
                                   else_stmt_seq |-> None, line |-> f.line,
                                   indent_level |-> f.lvl])))
      [] f.s = 4 ->
           Checked(<<Reserved(END), Symbol(SEMICOLON)>>, <<>>,
                   Push(SubSeq(nodes, 4, Len(nodes)),
                        [k |-> "If", condition |-> nodes[3],
                         then_stmt_seq |-> nodes[2],
                         else_stmt_seq |-> nodes[1], line |-> f.line,
                         indent_level |-> f.lvl]))

\* Cond.__init__ with the children that were constructed
CondNode(line, comparison, not_condition, left_condition, conj, disj) ==
    [k |-> "Cond", comparison |-> comparison,
     not_condition |-> not_condition, left_condition |-> left_condition,
     conjunction_right_condition |-> conj,
     disjunction_right_condition |-> disj, line |-> line]

\* Cond.parse that does not ask for the closing bracket
Cond_parse_Unbracketed(f) ==
    CASE f.s = 1 ->
           Peek(LET n == CurrentToken(tokenizer) IN
                CASE n = LEFT_PARENTHESIS ->
                       Go(
                          <<Call("Comp", f.line, 0),
                            Frame("Cond", 2, f.line, 0, "comparison")>>,
                          nodes)
                  [] n = LOGICAL_NOT ->
                       Skip(
                          <<Call("Cond", f.line, 0),
                            Frame("Cond", 2, f.line, 0, "not")>>, nodes)
                  [] n = LEFT_BRACKET ->
                       Skip(
                          <<Call("Cond", f.line, 0),
                            Frame("Cond", 3, f.line, 0, "")>>, nodes)
                  [] OTHER -> Unexpected)
      [] f.s = 2 ->
           Go( <<>>,
              Push(Tail(nodes),
                   IF f.alt = "comparison"
                   THEN CondNode(f.line, nodes[1], None, None, None, None)
                   ELSE CondNode(f.line, None, nodes[1], None, None, None)))
      [] f.s = 3 ->
           Peek(LET n == CurrentToken(tokenizer) IN
                IF n \in {LOGICAL_AND, LOGICAL_OR}
                THEN Skip(
                        <<Call("Cond", f.line, 0),
                          Frame("Cond", 4, f.line, 0,
                                IF n = LOGICAL_AND THEN "and" ELSE "or")>>,
                        nodes)
                ELSE Unexpected)
      [] f.s = 4 ->
           Go(<<>>,
                   Push(SubSeq(nodes, 3, Len(nodes)),
                        IF f.alt = "and"
                        THEN CondNode(f.line, None, None, nodes[2],
                                      nodes[1], None)
                        ELSE CondNode(f.line, None, None, nodes[2],
                                      None, nodes[1])))

\* Cond.parse
Cond_parse(f) ==
    CASE f.s = 1 ->
           Peek(LET n == CurrentToken(tokenizer) IN
                CASE n = LEFT_PARENTHESIS ->
                       Go(
                          <<Call("Comp", f.line, 0),
                            Frame("Cond", 2, f.line, 0, "comparison")>>,
                          nodes)
                  [] n = LOGICAL_NOT ->
                       Skip(
                          <<Call("Cond", f.line, 0),
                            Frame("Cond", 2, f.line, 0, "not")>>, nodes)
                  [] n = LEFT_BRACKET ->
                       Skip(
                          <<Call("Cond", f.line, 0),
                            Frame("Cond", 3, f.line, 0, "")>>, nodes)
                  [] OTHER -> Unexpected)
      [] f.s = 2 ->
           Go( <<>>,
              Push(Tail(nodes),
                   IF f.alt = "comparison"
                   THEN CondNode(f.line, nodes[1], None, None, None, None)
                   ELSE CondNode(f.line, None, nodes[1], None, None, None)))
      [] f.s = 3 ->
           Peek(LET n == CurrentToken(tokenizer) IN
                IF n \in {LOGICAL_AND, LOGICAL_OR}
                THEN Skip(
                        <<Call("Cond", f.line, 0),
                          Frame("Cond", 4, f.line, 0,
                                IF n = LOGICAL_AND THEN "and" ELSE "or")>>,
                        nodes)
                ELSE Unexpected)
      [] f.s = 4 ->
           Checked(<<Symbol(RIGHT_BRACKET)>>, <<>>,
                   Push(SubSeq(nodes, 3, Len(nodes)),
                        IF f.alt = "and"
                        THEN CondNode(f.line, None, None, nodes[2],
                                      nodes[1], None)
                        ELSE CondNode(f.line, None, None, nodes[2],
                                      None, nodes[1])))

\* Comp.parse
Comp_parse(f) ==
    CASE f.s = 1 ->
           Checked(<<Symbol(LEFT_PARENTHESIS)>>,
                   <<Call("Op", f.line, 0), Call("CompOp", 0, 0),
                     Call("Op", f.line, 0),
                     Frame("Comp", 2, f.line, 0, "")>>, nodes)
      [] f.s = 2 ->
           Checked(<<Symbol(RIGHT_PARENTHESIS)>>, <<>>,
                   Push(SubSeq(nodes, 4, Len(nodes)),
                        [k |-> "Comp", left_operand |-> nodes[3],
                         comp_operator |-> nodes[2],
                         right_operand |-> nodes[1], line |-> f.line]))

\* the comparison operators CompOp.parse accepts
CompOps == {NOT_EQUAL, EQUAL, LESS_THAN, GREATER_THAN, LESS_THAN_OR_EQUAL,
            GREATER_THAN_OR_EQUAL}

\* CompOp.parse
CompOp_parse(f) ==
    Peek(IF CurrentToken(tokenizer) \notin CompOps
         THEN Unexpected
         ELSE Skip( <<>>,
                 Push(nodes, [k |-> "CompOp",
                              operator |-> CurrentToken(tokenizer)])))

\* Assign.parse
Assign_parse(f) ==
    CASE f.s = 1 ->
           LET line == tokenizer.line_number IN
           Go(
              <<Call("Id", 0, 0), Frame("Assign", 2, line, 0, "")>>, nodes)
      [] f.s = 2 ->
           Checked(<<Symbol(ASSIGNMENT)>>,
                   <<Call("Exp", f.line, 0),
                     Frame("Assign", 3, f.line, 0, "")>>, nodes)
      [] f.s = 3 ->
           Checked(<<Symbol(SEMICOLON)>>, <<>>,
                   Push(SubSeq(nodes, 3, Len(nodes)),
                        [k |-> "Assign", id |-> nodes[2].ref,
                         expression |-> nodes[1], line |-> f.line]))

\* Exp.__init__ with the children that were constructed
ExpNode(line, factor, add, subtract) ==
    [k |-> "Exp", factor |-> factor, add_expression |-> add,
     subtract_expression |-> subtract, line |-> line]

\* Exp.parse
Exp_parse(f) ==
    CASE f.s = 1 ->
           Go(
              <<Call("Fac", f.line, 0), Frame("Exp", 2, f.line, 0, "")>>,
              nodes)
      [] f.s = 2 ->
           Peek(LET n == CurrentToken(tokenizer) IN
                IF n \in {ADDITION, SUBTRACTION}
                THEN Skip(
                        <<Call("Exp", f.line, 0),
                          Frame("Exp", 3, f.line, 0,
                                IF n = ADDITION THEN "add" ELSE "subtract")>>,
                        nodes)
                ELSE Go( <<>>,
                        Push(Tail(nodes),
                             ExpNode(f.line, nodes[1], None, None))))
      [] f.s = 3 ->
           Go( <<>>,
              Push(SubSeq(nodes, 3, Len(nodes)),
                   IF f.alt = "add"
                   THEN ExpNode(f.line, nodes[2], nodes[1], None)
                   ELSE ExpNode(f.line, nodes[2], None, nodes[1])))

\* Fac.parse
Fac_parse(f) ==
    CASE f.s = 1 ->
           Go(
              <<Call("Op", f.line, 0), Frame("Fac", 2, f.line, 0, "")>>,
              nodes)
      [] f.s = 2 ->
           Peek(IF CurrentToken(tokenizer) = MULTIPLICATION
                THEN Skip(
                        <<Call("Fac", f.line, 0),
                          Frame("Fac", 3, f.line, 0, "")>>, nodes)
                ELSE Go( <<>>,
                        Push(Tail(nodes),
                             [k |-> "Fac", operand |-> nodes[1],
                              factor |-> None, line |-> f.line])))
      [] f.s = 3 ->
           Go( <<>>,
              Push(SubSeq(nodes, 3, Len(nodes)),
                   [k |-> "Fac", operand |-> nodes[2], factor |-> nodes[1],
                    line |-> f.line]))

\* Op.__init__ with the child that was constructed (id 0 for None)
OpNode(line, int, id, parenth_exp) ==
    [k |-> "Op", int |-> int, id |-> id, parenth_exp |-> parenth_exp,
     line |-> line]

\* Op.parse
Op_parse(f) ==
    CASE f.s = 1 ->
           Peek(LET n == CurrentToken(tokenizer) IN
                CASE n = INTEGER ->
                       Go(
                          <<Call("Int", 0, 0),
                            Frame("Op", 2, f.line, 0, "int")>>,
                          Push(nodes, [k |-> "Int",
                                       value |-> IntVal(tokenizer)]))
                  [] n = IDENTIFIER ->
                       Go(
                          <<Call("Id", 0, 0),
                            Frame("Op", 2, f.line, 0, "id")>>, nodes)
                  [] n = LEFT_PARENTHESIS ->
                       Go(
                          <<Call("ParenthExp", f.line, 0),
                            Frame("Op", 2, f.line, 0, "parenth_exp")>>,
                          nodes)
                  [] OTHER -> Unexpected)
      [] f.s = 2 ->
           CASE f.alt = "int" ->
                  Go( <<>>,
                     Push(Tail(nodes), OpNode(f.line, nodes[1], 0, None)))
             [] f.alt = "id" ->
                  [Go( <<>>,
                      Push(Tail(nodes),
                           OpNode(f.line, None, nodes[1].ref, None)))
                   EXCEPT !.ids = RecordLine(declared_ids, nodes[1].ref,
                                             f.line, tokenizer.line_number)]
             [] f.alt = "parenth_exp" ->
                  Checked(<<Symbol(RIGHT_PARENTHESIS)>>, <<>>,
                          Push(Tail(nodes),
                               OpNode(f.line, None, 0, nodes[1])))

\* ParenthExp.parse
ParenthExp_parse(f) ==
    CASE f.s = 1 ->
           Checked(<<Symbol(LEFT_PARENTHESIS)>>,
                   <<Call("Exp", f.line, 0),
                     Frame("ParenthExp", 2, f.line, 0, "")>>, nodes)
      [] f.s = 2 ->
           Go( <<>>,
              Push(Tail(nodes),
                   [k |-> "ParenthExp", expression |-> nodes[1],
                    line |-> f.line]))

\* Int.parse
Int_parse(f) == Checked(<<<<INTEGER, "integer">> >>, <<>>, nodes)

----------------------------------------------------------------------------
(* bnf_grammar.py: the print methods; the text is a sequence of characters *)

\* the text of a reserved word or special symbol, by token number
Word(n) == IF n <= Len(RESERVED) THEN RESERVED[n]
           ELSE SPECIAL[n - Len(RESERVED)]

\* Prog.pretty_print_indent * n
RECURSIVE Indent(_)
Indent(n) == IF n = 0 THEN <<>> ELSE <<" ", " ">> \o Indent(n - 1)

RECURSIVE NatToChars(_)
\* str() of a natural number
NatToChars(n) ==
    IF n < 10 THEN <<DECIMAL_DIGITS[n + 1]>>
    ELSE NatToChars(n \div 10) \o <<DECIMAL_DIGITS[(n % 10) + 1]>>

\* str() of an integer, as print() writes it
IntToChars(v) == IF v < 0 THEN <<"-">> \o NatToChars(0 - v) ELSE NatToChars(v)

RECURSIVE IdList_print(_, _)
\* IdList.print (with Id.print)
IdList_print(n, ids) ==
    ids[n.id].name
    \o (IF IsNone(n.id_list) THEN <<>>
        ELSE <<",", " ">> \o IdList_print(n.id_list, ids))

\* Decl.print
Decl_print(n, ids) ==
    Word(INT) \o <<" ">> \o IdList_print(n.id_list, ids) \o <<";", "\n">>

RECURSIVE DeclSeq_print(_, _)
\* DeclSeq.print
DeclSeq_print(n, ids) ==
    Indent(1) \o Decl_print(n.decl, ids)
    \o (IF IsNone(n.decl_seq) THEN <<>> ELSE DeclSeq_print(n.decl_seq, ids))

RECURSIVE Exp_print(_, _)
RECURSIVE Fac_print(_, _)
RECURSIVE Op_print(_, _)
RECURSIVE Cond_print(_, _)
RECURSIVE StmtSeq_print(_, _)
RECURSIVE Stmt_print(_, _)

\* Op.print that writes an expression in parentheses without them
Op_print_NoParentheses(n, ids) ==
    (IF IsNone(n.int) THEN <<>> ELSE IntToChars(n.int.value))
    \o (IF n.id = 0 THEN <<>> ELSE ids[n.id].name)
    \o (IF IsNone(n.parenth_exp) THEN <<>>
        ELSE Exp_print(n.parenth_exp.expression, ids))

\* Op.print (with Int.print, Id.print and ParenthExp.print)
Op_print(n, ids) ==
    (IF IsNone(n.int) THEN <<>> ELSE IntToChars(n.int.value))
    \o (IF n.id = 0 THEN <<>> ELSE ids[n.id].name)
    \o (IF IsNone(n.parenth_exp) THEN <<>>
        ELSE <<"(", " ">> \o Exp_print(n.parenth_exp.expression, ids)
             \o <<" ", ")">>)

\* Fac.print
Fac_print(n, ids) ==
    Op_print(n.operand, ids)
    \o (IF IsNone(n.factor) THEN <<>>
        ELSE <<" ", "*", " ">> \o Fac_print(n.factor, ids))

\* Exp.print
Exp_print(n, ids) ==
    Fac_print(n.factor, ids)
    \o (IF IsNone(n.add_expression) THEN <<>>
        ELSE <<" ", "+", " ">> \o Exp_print(n.add_expression, ids))
    \o (IF IsNone(n.subtract_expression) THEN <<>>
        ELSE <<" ", "-", " ">> \o Exp_print(n.subtract_expression, ids))

\* Comp.print (with CompOp.print)
Comp_print(n, ids) ==
    <<"(", " ">> \o Op_print(n.left_operand, ids)
    \o <<" ">> \o Word(n.comp_operator.operator) \o <<" ">>
    \o Op_print(n.right_operand, ids) \o <<" ", ")">>

\* Cond.print
Cond_print(n, ids) ==
    (IF IsNone(n.comparison) THEN <<>> ELSE Comp_print(n.comparison, ids))
    \o (IF IsNone(n.not_condition) THEN <<>>
        ELSE <<"!">> \o Cond_print(n.not_condition, ids))
    \o (IF IsNone(n.conjunction_right_condition) THEN <<>>
        ELSE <<"[", " ">> \o Cond_print(n.left_condition, ids)
             \o <<" ", "&", "&", " ">>
             \o Cond_print(n.conjunction_right_condition, ids)
             \o <<" ", "]">>)
    \o (IF IsNone(n.disjunction_right_condition) THEN <<>>
        ELSE <<"[", " ">> \o Cond_print(n.left_condition, ids)
             \o <<" ", "|", "|", " ">>
             \o Cond_print(n.disjunction_right_condition, ids)
             \o <<" ", "]">>)

\* Assign.print
Assign_print(n, ids) ==
    ids[n.id].name \o <<" ", "=", " ">> \o Exp_print(n.expression, ids)
    \o <<";", "\n">>

\* In.print and Out.print
InOut_print(n, ids) ==
    Word(IF n.k = "In" THEN READ ELSE WRITE) \o <<" ">>
    \o IdList_print(n.id_list, ids) \o <<";", "\n">>

\* Loop.print with the loop keyword at the level of the while statement
Loop_print_LoopAtLevel(n, ids) ==
    Word(WHILE) \o <<" ">> \o Cond_print(n.condition, ids) \o <<"\n">>
    \o Indent(n.indent_level) \o Word(LOOP) \o <<"\n">>
    \o StmtSeq_print(n.stmt_seq, ids)
    \o Indent(n.indent_level) \o Word(END) \o <<";", "\n">>

\* Loop.print
Loop_print(n, ids) ==
    Word(WHILE) \o <<" ">> \o Cond_print(n.condition, ids) \o <<"\n">>
    \o Indent(n.indent_level + 1) \o Word(LOOP) \o <<"\n">>
    \o StmtSeq_print(n.stmt_seq, ids)
    \o Indent(n.indent_level) \o Word(END) \o <<";", "\n">>

\* If.print
If_print(n, ids) ==
    Word(TokIF) \o <<" ">> \o Cond_print(n.condition, ids)
    \o <<" ">> \o Word(TokTHEN) \o <<"\n">>
    \o StmtSeq_print(n.then_stmt_seq, ids)
    \o (IF IsNone(n.else_stmt_seq) THEN <<>>
        ELSE Indent(n.indent_level) \o Word(TokELSE) \o <<"\n">>
             \o StmtSeq_print(n.else_stmt_seq, ids))
    \o Indent(n.indent_level) \o Word(END) \o <<";", "\n">>

\* Stmt.print
Stmt_print(n, ids) ==
    CASE n.alt = "Assign" -> Assign_print(n.node, ids)
      [] n.alt = "If" -> If_print(n.node, ids)
      [] n.alt = "Loop" -> Loop_print(n.node, ids)
      [] n.alt \in {"In", "Out"} -> InOut_print(n.node, ids)

\* StmtSeq.print
StmtSeq_print(n, ids) ==
    Indent(n.indent_level) \o Stmt_print(n.stmt, ids)
    \o (IF IsNone(n.stmt_seq) THEN <<>> ELSE StmtSeq_print(n.stmt_seq, ids))

\* Prog.print
Prog_print(n, ids) ==
    Word(PROGRAM) \o <<"\n">> \o DeclSeq_print(n.decl_seq, ids)
    \o Word(BEGIN) \o <<"\n">> \o StmtSeq_print(n.stmt_seq, ids)
    \o Word(END) \o <<"\n">>

----------------------------------------------------------------------------
(* bnf_grammar.py: the evaluate and execute methods *)

\* an observation of the run: what was done, to which identifier, with
\* which value, at which data line, and whether it succeeded
Ev(e, id, v, k, ok) == [e |-> e, id |-> id, v |-> v, k |-> k, ok |-> ok]

\* Id.set_value that stores the value and leaves the flag as it was
Id_set_value_NoFlag(ids, ref, value) ==
    [ids EXCEPT ![ref].value = value]

\* Id.set_value with the value kept in one attribute all identifiers share
Id_set_value_Shared(ids, ref, value) ==
    [i \in DOMAIN ids |->
       [ids[i] EXCEPT !.value = value,
                      !.initialized = IF i = ref THEN TRUE ELSE @]]

\* Id.set_value
Id_set_value(ids, ref, value) ==
    [ids EXCEPT ![ref].initialized = TRUE, ![ref].value = value]

\* Id.get_value that returns the stored value without testing the flag
Id_get_value_Unchecked(ids, ref, line_number) ==
    [err |-> NoErr, v |-> ids[ref].value,
     reads |-> <<Ev("get", ref, ids[ref].value, 0, ids[ref].initialized)>>]

\* Id.get_value: the value, or the runtime error it exits with
Id_get_value(ids, ref, line_number) ==
    IF ids[ref].initialized
    THEN [err |-> NoErr, v |-> ids[ref].value,
          reads |-> <<Ev("get", ref, ids[ref].value, 0, TRUE)>>]
    ELSE [err |-> Err("runtime", "uninitialized identifier", ids[ref].name,
                      ids[ref].line[line_number], line_number),
          v |-> 0, reads |-> <<Ev("get", ref, 0, 0, FALSE)>>]

\* 'left <operator> right' with the right side evaluated first
Binary_RightFirst(l, r, v) ==
    IF r.err.kind # "none" THEN r
    ELSE IF l.err.kind # "none" THEN [l EXCEPT !.reads = r.reads \o @]
    ELSE [err |-> NoErr, v |-> v, reads |-> r.reads \o l.reads]

\* 'left <operator> right' in Python: left first, then right
Binary(l, r, v) ==
    IF l.err.kind # "none" THEN l
    ELSE IF r.err.kind # "none" THEN [r EXCEPT !.reads = l.reads \o @]
    ELSE [err |-> NoErr, v |-> v, reads |-> l.reads \o r.reads]

RECURSIVE Exp_evaluate(_, _, _)
RECURSIVE Fac_evaluate(_, _, _)
RECURSIVE Op_evaluate(_, _, _)
RECURSIVE Cond_evaluate(_, _, _)

\* Op.evaluate (with Int.get_value and ParenthExp.evaluate)
Op_evaluate(n, ids, line_number) ==
    IF ~IsNone(n.int)
    THEN [err |-> NoErr, v |-> n.int.value, reads |-> <<>>]
    ELSE IF n.id # 0 THEN Id_get_value(ids, n.id, line_number)
    ELSE Exp_evaluate(n.parenth_exp.expression, ids, line_number)

\* Fac.evaluate with '*' computed as '+'
Fac_evaluate_AddsFactor(n, ids, line_number) ==
    IF ~IsNone(n.factor)
    THEN LET l == Op_evaluate(n.operand, ids, line_number)
             r == Fac_evaluate(n.factor, ids, line_number)
         IN Binary(l, r, l.v + r.v)
    ELSE Op_evaluate(n.operand, ids, line_number)

\* Fac.evaluate
Fac_evaluate(n, ids, line_number) ==
    IF ~IsNone(n.factor)
    THEN LET l == Op_evaluate(n.operand, ids, line_number)
             r == Fac_evaluate(n.factor, ids, line_number)
         IN Binary(l, r, l.v * r.v)
    ELSE Op_evaluate(n.operand, ids, line_number)

RECURSIVE ExpFold(_, _, _, _, _)

\* the factors of an expression taken from the left: acc <operator> factor,
\* then the rest
ExpFold(acc, operator, n, ids, line_number) ==
    LET f == Fac_evaluate(n.factor, ids, line_number)
        cur == Binary(acc, f, IF operator = ADDITION THEN acc.v + f.v
                              ELSE acc.v - f.v)
    IN IF ~IsNone(n.add_expression)
       THEN ExpFold(cur, ADDITION, n.add_expression, ids, line_number)
       ELSE IF ~IsNone(n.subtract_expression)
       THEN ExpFold(cur, SUBTRACTION, n.subtract_expression, ids,
                    line_number)
       ELSE cur

\* Exp.evaluate that groups '+' and '-' from the left
Exp_evaluate_LeftAssoc(n, ids, line_number) ==
    ExpFold([err |-> NoErr, v |-> 0, reads |-> <<>>], ADDITION, n, ids,
            line_number)

\* Exp.evaluate with a subtraction that stops at zero
Exp_evaluate_Clamps(n, ids, line_number) ==
    IF ~IsNone(n.add_expression)
    THEN LET l == Fac_evaluate(n.factor, ids, line_number)
             r == Exp_evaluate(n.add_expression, ids, line_number)
         IN Binary(l, r, l.v + r.v)
    ELSE IF ~IsNone(n.subtract_expression)
    THEN LET l == Fac_evaluate(n.factor, ids, line_number)
             r == Exp_evaluate(n.subtract_expression, ids, line_number)
         IN Binary(l, r, IF l.v < r.v THEN 0 ELSE l.v - r.v)
    ELSE Fac_evaluate(n.factor, ids, line_number)

\* Exp.evaluate
Exp_evaluate(n, ids, line_number) ==
    IF ~IsNone(n.add_expression)
    THEN LET l == Fac_evaluate(n.factor, ids, line_number)
             r == Exp_evaluate(n.add_expression, ids, line_number)
         IN Binary(l, r, l.v + r.v)
    ELSE IF ~IsNone(n.subtract_expression)
    THEN LET l == Fac_evaluate(n.factor, ids, line_number)
             r == Exp_evaluate(n.subtract_expression, ids, line_number)
         IN Binary(l, r, l.v - r.v)
    ELSE Fac_evaluate(n.factor, ids, line_number)

\* Comp.evaluate
Comp_evaluate(n, ids, line_number) ==
    LET operator == n.comp_operator.operator
        l == Op_evaluate(n.left_operand, ids, line_number)
        r == Op_evaluate(n.right_operand, ids, line_number)
    IN Binary(l, r,
              CASE operator = NOT_EQUAL -> l.v # r.v
                [] operator = EQUAL -> l.v = r.v
                [] operator = LESS_THAN -> l.v < r.v
                [] operator = GREATER_THAN -> l.v > r.v
                [] operator = LESS_THAN_OR_EQUAL -> l.v <= r.v
                [] operator = GREATER_THAN_OR_EQUAL -> l.v >= r.v)

\* Cond.evaluate with 'and' computed as 'or'
Cond_evaluate_AndAsOr(n, ids, line_number) ==
    IF ~IsNone(n.comparison)
    THEN Comp_evaluate(n.comparison, ids, line_number)
    ELSE IF ~IsNone(n.not_condition)
    THEN LET c == Cond_evaluate(n.not_condition, ids, line_number)
         IN IF c.err.kind # "none" THEN c ELSE [c EXCEPT !.v = ~c.v]
    ELSE LET l == Cond_evaluate(n.left_condition, ids, line_number)
             right == IF ~IsNone(n.conjunction_right_condition)
                      THEN n.conjunction_right_condition
                      ELSE n.disjunction_right_condition
         IN IF l.err.kind # "none" \/ l.v THEN l
            ELSE Binary(l, Cond_evaluate(right, ids, line_number),
                        Cond_evaluate(right, ids, line_number).v)

\* Cond.evaluate; 'and' and 'or' evaluate the right side only if needed
Cond_evaluate(n, ids, line_number) ==
    IF ~IsNone(n.comparison)
    THEN Comp_evaluate(n.comparison, ids, line_number)
    ELSE IF ~IsNone(n.not_condition)
    THEN LET c == Cond_evaluate(n.not_condition, ids, line_number)
         IN IF c.err.kind # "none" THEN c ELSE [c EXCEPT !.v = ~c.v]
    ELSE LET l == Cond_evaluate(n.left_condition, ids, line_number) IN
         IF l.err.kind # "none" THEN l
         ELSE IF ~IsNone(n.conjunction_right_condition)
         THEN IF ~l.v THEN l
              ELSE LET r == Cond_evaluate(n.conjunction_right_condition,
                                          ids, line_number)
                   IN Binary(l, r, r.v)
         ELSE IF l.v THEN l
              ELSE LET r == Cond_evaluate(n.disjunction_right_condition,
                                          ids, line_number)
                   IN Binary(l, r, r.v)

RECURSIVE Cond_evaluate_Strict(_, _, _)

\* the strict reading of a condition: both sides of '&&' and of '||' are
\* always evaluated, the left one first
Cond_evaluate_Strict(n, ids, line_number) ==
    IF ~IsNone(n.comparison)
    THEN Comp_evaluate(n.comparison, ids, line_number)
    ELSE IF ~IsNone(n.not_condition)
    THEN LET c == Cond_evaluate_Strict(n.not_condition, ids, line_number)
         IN IF c.err.kind # "none" THEN c ELSE [c EXCEPT !.v = ~c.v]
    ELSE LET l == Cond_evaluate_Strict(n.left_condition, ids, line_number)
         IN IF ~IsNone(n.conjunction_right_condition)
            THEN LET r == Cond_evaluate_Strict(
                              n.conjunction_right_condition, ids, line_number)
                 IN Binary(l, r, l.v /\ r.v)
            ELSE LET r == Cond_evaluate_Strict(
                              n.disjunction_right_condition, ids, line_number)
                 IN Binary(l, r, l.v \/ r.v)

\* int(line): surrounding white space is dropped, a sign may lead, and
\* the digits may be grouped by single underscores
StripLeft(s) ==
    LET blank == {i \in DOMAIN s : \A j \in 1..i : s[j] \in WHITE_SPACE}
    IN SubSeq(s, Cardinality(blank) + 1, Len(s))

StripRight(s) ==
    LET blank == {i \in DOMAIN s : \A j \in i..Len(s) : s[j] \in WHITE_SPACE}
    IN SubSeq(s, 1, Len(s) - Cardinality(blank))

SelectDigits(s) == SelectSeq(s, LAMBDA c : c \in Digits)

PyInt(line) ==
    LET s == StripRight(StripLeft(line))
        signed == s # <<>> /\ s[1] \in {"+", "-"}
        body == IF signed THEN Tail(s) ELSE s
        ok == /\ body # <<>>
              /\ body[1] \in Digits
              /\ body[Len(body)] \in Digits
              /\ \A i \in DOMAIN body : body[i] \in Digits \cup {"_"}
              /\ \A i \in 1..(Len(body) - 1) :
                    ~(body[i] = "_" /\ body[i + 1] = "_")
        magnitude == IntOfDigits(SelectDigits(body))
    IN [ok |-> ok,
        v |-> IF ~ok THEN 0
              ELSE IF signed /\ s[1] = "-" THEN 0 - magnitude
              ELSE magnitude]

\* a pending execute call: the node, and IdList.execute's arguments
ExFrame(r, node, is_input, line) ==
    [r |-> r, node |-> node, is_input |-> is_input, line |-> line]

\* what one execute call does: the error it exits with, the calls that
\* take its place, the identifiers, the text it prints, IdList._is_output,
\* the data stream and the observations
Done(push, ids, out, io, d, evs) ==
    [err |-> NoErr, push |-> push, ids |-> ids, out |-> out, io |-> io,
     data |-> d, evs |-> evs]

\* runtime_error that closes the data stream and returns to its caller
runtime_error_Returns(e, out, io, d, evs) ==
    [err |-> NoErr, push |-> <<>>, ids |-> declared_ids, out |-> out,
     io |-> io, data |-> [d EXCEPT !.state = "closed"], evs |-> evs]

\* runtime_error that exits without closing the data stream
runtime_error_LeavesOpen(e, out, io, d, evs) ==
    [err |-> e, push |-> <<>>, ids |-> declared_ids, out |-> out, io |-> io,
     data |-> d, evs |-> evs]

\* runtime_error: the data stream is closed and the interpreter exits
runtime_error(e, out, io, d, evs) ==
    [err |-> e, push |-> <<>>, ids |-> declared_ids, out |-> out, io |-> io,
     data |-> [d EXCEPT !.state = "closed"], evs |-> evs]

Quiet(push) == Done(push, declared_ids, <<>>, is_output, data, <<>>)

\* Prog.execute
Prog_execute(f) == Quiet(<<ExFrame("StmtSeq", f.node.stmt_seq, FALSE, 0)>>)

\* StmtSeq.execute
StmtSeq_execute(f) ==
    Quiet(<<ExFrame("Stmt", f.node.stmt, FALSE, 0)>>
          \o (IF IsNone(f.node.stmt_seq) THEN <<>>
              ELSE <<ExFrame("StmtSeq", f.node.stmt_seq, FALSE, 0)>>))

\* Stmt.execute
Stmt_execute(f) == Quiet(<<ExFrame(f.node.alt, f.node.node, FALSE, 0)>>)

\* In.execute that reads the data file from its first line again
In_execute_Rewind(f) ==
    Done(<<ExFrame("IdList", f.node.id_list, TRUE, f.node.line)>>,
         declared_ids, <<>>, is_output, [data EXCEPT !.pos = 0], <<>>)

\* In.execute
In_execute(f) ==
    Quiet(<<ExFrame("IdList", f.node.id_list, TRUE, f.node.line)>>)

\* Out.execute that clears IdList._is_output before the targets
Out_execute_ResetBanner(f) ==
    Done(<<ExFrame("IdList", f.node.id_list, FALSE, f.node.line)>>,
         declared_ids, <<>>, FALSE, data, <<>>)

\* Out.execute
Out_execute(f) ==
    Quiet(<<ExFrame("IdList", f.node.id_list, FALSE, f.node.line)>>)

\* Assign.execute that initializes the target before it evaluates the
\* expression
Assign_execute_TargetFirst(f) ==
    LET ids == Id_set_value(declared_ids, f.node.id,
                            declared_ids[f.node.id].value)
        r == Exp_evaluate(f.node.expression, ids, f.node.line) IN
    IF r.err.kind # "none"
    THEN [runtime_error(r.err, <<>>, is_output, data, r.reads)
             EXCEPT !.ids = ids]
    ELSE Done(<<>>, Id_set_value(ids, f.node.id, r.v), <<>>,
              is_output, data,
              Append(r.reads, Ev("assign", f.node.id, r.v, 0, TRUE)))

\* Assign.execute
Assign_execute(f) ==
    LET r == Exp_evaluate(f.node.expression, declared_ids, f.node.line) IN
    IF r.err.kind # "none"
    THEN runtime_error(r.err, <<>>, is_output, data, r.reads)
    ELSE Done(<<>>, Id_set_value(declared_ids, f.node.id, r.v), <<>>,
              is_output, data,
              Append(r.reads, Ev("assign", f.node.id, r.v, 0, TRUE)))

\* If.execute that falls into the then-body when there is no else
If_execute_ThenWithoutElse(f) ==
    LET r == Cond_evaluate(f.node.condition, declared_ids, f.node.line) IN
    IF r.err.kind # "none"
    THEN runtime_error(r.err, <<>>, is_output, data, r.reads)
    ELSE Done(IF r.v \/ IsNone(f.node.else_stmt_seq)
              THEN <<ExFrame("StmtSeq", f.node.then_stmt_seq, FALSE, 0)>>
              ELSE <<ExFrame("StmtSeq", f.node.else_stmt_seq, FALSE, 0)>>,
              declared_ids, <<>>, is_output, data,
              Append(r.reads, Ev("if", 0, IF r.v THEN 1 ELSE 0, 0, TRUE)))

\* If.execute
If_execute(f) ==
    LET r == Cond_evaluate(f.node.condition, declared_ids, f.node.line) IN
    IF r.err.kind # "none"
    THEN runtime_error(r.err, <<>>, is_output, data, r.reads)
    ELSE Done(IF r.v
              THEN <<ExFrame("StmtSeq", f.node.then_stmt_seq, FALSE, 0)>>
              ELSE IF ~IsNone(f.node.else_stmt_seq)
              THEN <<ExFrame("StmtSeq", f.node.else_stmt_seq, FALSE, 0)>>
              ELSE <<>>,
              declared_ids, <<>>, is_output, data,
              Append(r.reads, Ev("if", 0, IF r.v THEN 1 ELSE 0, 0, TRUE)))

\* Loop.execute that tests the condition once and does not come back to it
Loop_execute_Once(f) ==
    LET r == Cond_evaluate(f.node.condition, declared_ids, f.node.line) IN
    IF r.err.kind # "none"
    THEN runtime_error(r.err, <<>>, is_output, data, r.reads)
    ELSE Done(IF r.v
              THEN <<ExFrame("StmtSeq", f.node.stmt_seq, FALSE, 0)>>
              ELSE <<>>,
              declared_ids, <<>>, is_output, data,
              Append(r.reads, Ev("while", 0, IF r.v THEN 1 ELSE 0, 0, TRUE)))

\* Loop.execute: one test of the condition of the while loop
Loop_execute(f) ==
    LET r == Cond_evaluate(f.node.condition, declared_ids, f.node.line) IN
    IF r.err.kind # "none"
    THEN runtime_error(r.err, <<>>, is_output, data, r.reads)
    ELSE Done(IF r.v
              THEN <<ExFrame("StmtSeq", f.node.stmt_seq, FALSE, 0), f>>
              ELSE <<>>,
              declared_ids, <<>>, is_output, data,
              Append(r.reads, Ev("while", 0, IF r.v THEN 1 ELSE 0, 0, TRUE)))

\* print('\n----------Program Output----------')
Banner ==
    <<"\n">> \o [i \in 1..10 |-> "-"]
    \o <<"P", "r", "o", "g", "r", "a", "m", " ", "O", "u", "t", "p", "u", "t">>
    \o [i \in 1..10 |-> "-"] \o <<"\n">>

\* IdList.execute that reads the value of a write target before it prints
\* the banner
IdList_execute_ValueFirst(f) ==
    LET rest == IF IsNone(f.node.id_list) THEN <<>>
                ELSE <<ExFrame("IdList", f.node.id_list, f.is_input, f.line)>>
        ref == f.node.id
    IN
    IF f.is_input
    THEN LET line == ReadLine(datafile, data.pos)
             k == data.pos + 1
             d == IF line = <<>> THEN data ELSE [data EXCEPT !.pos = k]
             value == PyInt(line)
         IN
         IF line = <<>>
         THEN runtime_error(Err("runtime", "input eof", <<>>, 0, f.line),
                            <<>>, is_output, d,
                            <<Ev("read", ref, 0, k, FALSE)>>)
         ELSE IF line = <<"\n">>
         THEN runtime_error(Err("runtime", "input empty line", <<>>, 0,
                                f.line),
                            <<>>, is_output, d,
                            <<Ev("read", ref, 0, k, FALSE)>>)
         ELSE IF ~value.ok
         THEN runtime_error(Err("runtime", "input invalid line", line, 0,
                                f.line),
                            <<>>, is_output, d,
                            <<Ev("read", ref, 0, k, FALSE)>>)
         ELSE Done(rest, Id_set_value(declared_ids, ref, value.v), <<>>,
                   is_output, d, <<Ev("read", ref, value.v, k, TRUE)>>)
    ELSE LET banner == IF ~is_output THEN Banner ELSE <<>>
             r == Id_get_value(declared_ids, ref, f.line)
         IN
         IF r.err.kind # "none"
         THEN runtime_error(r.err, <<>>, is_output, data, r.reads)
         ELSE Done(rest, declared_ids,
                   banner \o declared_ids[ref].name \o <<" ", "=", " ">>
                   \o IntToChars(r.v) \o <<"\n">>,
                   TRUE, data,
                   Append(r.reads, Ev("write", ref, r.v, 0, TRUE)))

\* IdList.execute: one target, then the rest of the list
IdList_execute(f) ==
    LET rest == IF IsNone(f.node.id_list) THEN <<>>
                ELSE <<ExFrame("IdList", f.node.id_list, f.is_input, f.line)>>
        ref == f.node.id
    IN
    IF f.is_input
    THEN LET line == ReadLine(datafile, data.pos)
             k == data.pos + 1
             d == IF line = <<>> THEN data ELSE [data EXCEPT !.pos = k]
             value == PyInt(line)
         IN
         IF line = <<>>
         THEN runtime_error(Err("runtime", "input eof", <<>>, 0, f.line),
                            <<>>, is_output, d,
                            <<Ev("read", ref, 0, k, FALSE)>>)
         ELSE IF line = <<"\n">>
         THEN runtime_error(Err("runtime", "input empty line", <<>>, 0,
                                f.line),
                            <<>>, is_output, d,
                            <<Ev("read", ref, 0, k, FALSE)>>)
         ELSE IF ~value.ok
         THEN runtime_error(Err("runtime", "input invalid line", line, 0,
                                f.line),
                            <<>>, is_output, d,
                            <<Ev("read", ref, 0, k, FALSE)>>)
         ELSE Done(rest, Id_set_value(declared_ids, ref, value.v), <<>>,
                   is_output, d, <<Ev("read", ref, value.v, k, TRUE)>>)
    ELSE LET banner == IF ~is_output THEN Banner ELSE <<>>
             r == Id_get_value(declared_ids, ref, f.line)
         IN
         IF r.err.kind # "none"
         THEN runtime_error(r.err, banner, TRUE, data, r.reads)
         ELSE Done(rest, declared_ids,
                   banner \o declared_ids[ref].name \o <<" ", "=", " ">>
                   \o IntToChars(r.v) \o <<"\n">>,
                   TRUE, data,
                   Append(r.reads, Ev("write", ref, r.v, 0, TRUE)))

----------------------------------------------------------------------------
(* The inputs of a run: program files and data files.  A file is written  *)
(* as lines of words; Spell gives the characters of a word.                *)

\* the most statements in the body of a generated program
MaxStmts == 2

\* execute calls are made while hist holds fewer observations than this
MaxSteps == 12

\* the most lines of a file the tokenizer's client reads
MaxLines == 2

SpellTable ==
    [w \in {"program", "begin", "end", "int", "if", "then", "else", "while",
            "loop", "read", "write", "&&", "||", "!=", "==", "<=", ">="} |->
       CASE w = "program" -> RESERVED[PROGRAM]
         [] w = "begin" -> RESERVED[BEGIN]
         [] w = "end" -> RESERVED[END]
         [] w = "int" -> RESERVED[INT]
         [] w = "if" -> RESERVED[TokIF]
         [] w = "then" -> RESERVED[TokTHEN]
         [] w = "else" -> RESERVED[TokELSE]
         [] w = "while" -> RESERVED[WHILE]
         [] w = "loop" -> RESERVED[LOOP]
         [] w = "read" -> RESERVED[READ]
         [] w = "write" -> RESERVED[WRITE]
         [] w = "&&" -> SPECIAL[LOGICAL_AND - Len(RESERVED)]
         [] w = "||" -> SPECIAL[LOGICAL_OR - Len(RESERVED)]
         [] w = "!=" -> SPECIAL[NOT_EQUAL - Len(RESERVED)]
         [] w = "==" -> SPECIAL[EQUAL - Len(RESERVED)]
         [] w = "<=" -> SPECIAL[LESS_THAN_OR_EQUAL - Len(RESERVED)]
         [] w = ">=" -> SPECIAL[GREATER_THAN_OR_EQUAL - Len(RESERVED)]]

Spell(w) == IF w \in DOMAIN SpellTable THEN SpellTable[w] ELSE <<w>>

RECURSIVE Flatten(_)
Flatten(ss) == IF ss = <<>> THEN <<>> ELSE Head(ss) \o Flatten(Tail(ss))

\* a line of text: its words with no space between them, and the newline
Text(words) ==
    Flatten([i \in DOMAIN words |-> Spell(words[i])]) \o <<"\n">>

\* a line of text: its words with one space between them, and the newline
Line(words) ==
    Flatten([i \in DOMAIN words |->
               IF i = 1 THEN Spell(words[i])
               ELSE <<" ">> \o Spell(words[i])]) \o <<"\n">>

\* the same file without the newline at its end
Cut(file) ==
    [file EXCEPT ![Len(file)] = SubSeq(@, 1, Len(@) - 1)]

\* declarations of the generated programs
DeclPool ==
    << <<Line(<<"int", "X", ",", "Y", ";">>)>>,
       <<Line(<<"int", "X", ";">>), Line(<<"int", "Y", ";">>)>> >>

\* statements of the generated programs
StmtPool ==
    << <<Line(<<"X", "=", "1", ";">>)>>,
       <<Line(<<"read", "X", ",", "Y", ";">>)>>,
       <<Line(<<"write", "X", ",", "Y", ";">>)>>,
       <<Line(<<"Y", "=", "X", "+", "2", "*", "Y", ";">>)>>,
       <<Line(<<"if", "(", "X", "<", "2", ")", "then", "X", "=", "X", "+",
                "1", ";", "end", ";">>)>>,
       <<Line(<<"while", "(", "X", "<", "2", ")", "loop">>),
         Line(<<"X", "=", "X", "+", "1", ";">>),
         Line(<<"end", ";">>)>>,
       <<Line(<<"write", "X">>), Line(<<";">>)>> >>

\* every body of one to MaxStmts statements of the pool
Bodies ==
    UNION {[1..m -> DOMAIN StmtPool] : m \in 1..MaxStmts}

\* program <decl seq> begin <stmt seq> end, one statement after the other
Source(decl, body) ==
    <<Line(<<"program">>)>> \o DeclPool[decl] \o <<Line(<<"begin">>)>>
    \o Flatten([i \in DOMAIN body |-> StmtPool[body[i]]])
    \o <<Line(<<"end">>)>>

GeneratedSources ==
    {Source(d, b) : d \in DOMAIN DeclPool, b \in Bodies}

Head1 == Line(<<"program", "int", "X", ",", "Y", ";", "begin">>)

\* programs written out in full: layouts, errors of each kind, nesting
ScenarioSources ==
    { <<Line(<<"program", "int", "X", ";", "begin", "read", "X", ";",
               "write", "X", ";", "end">>)>>,
      <<Line(<<"program", "int", "X", ",", "Y", ";", "begin">>),
        Line(<<"X", "=", "2", "+", "3", "*", "4", ";", "Y", "=", "X", "-",
               "1", ";", "write", "X", ",", "Y", ";", "end">>)>>,
      <<Line(<<"program", "int", "I", ",", "S", ";", "begin", "I", "=", "1",
               ";", "S", "=", "0", ";">>),
        Line(<<"while", "(", "I", "<=", "3", ")", "loop", "S", "=", "S", "+",
               "I", ";", "I", "=", "I", "+", "1", ";", "end", ";">>),
        Line(<<"write", "S", ";", "end">>)>>,
      <<Line(<<"program", "int", "X", ";", "begin", "write", "X", ";",
               "end">>)>>,
      <<Line(<<"program", "int", "X", ";">>), Line(<<"int", "X", ";">>),
        Line(<<"begin", "write", "X", ";", "end">>)>>,
      <<Line(<<"program", "int", "X", ",", "Y", ";", "begin", "read", "X",
               ",", "Y", ";", "write", "X", ",", "Y", ";", "end">>)>>,
      <<Line(<<"program", "int", "X", ",">>), Line(<<"X", ";", "begin">>)>>,
      <<Head1, Line(<<"Z", "=", "1", ";", "end">>)>>,
      <<Head1, Line(<<"read", "X", ",", "Z", ";", "end">>)>>,
      <<Head1, Line(<<"X", "=", "1", ";", "write", "X", ",", "Z", ";",
                      "end">>)>>,
      <<Head1, Line(<<"X", "=", "1", "+", "Z", ";", "end">>)>>,
      <<Head1, Line(<<"if", "(", "1", "<", "Z", ")", "then", "X", "=", "1",
                      ";", "end", ";", "end">>)>>,
      <<Head1, Line(<<"X", "=", "1", ";">>),
        Line(<<"X", "=", "X", "*", "(", "Y", "+", "1", ")", ";", "end">>)>>,
      <<Head1, Line(<<"while", "!", "(", "1", "==", "Y", ")", "loop", "Y",
                      "=", "1", ";", "end", ";", "end">>)>>,
      <<Head1, Line(<<"X", "=", "1", ";">>), Line(<<"Y", "=", "1", "+">>),
        Line(<<"Y", ";", "end">>)>>,
      <<Head1, Line(<<"if", "(", "Y">>), Line(<<"<", "1", ")", "then">>),
        Line(<<"X", "=", "1", ";", "end", ";", "end">>)>>,
      <<Head1, Line(<<"X", "=", "1", ";", "write", "X", ",">>), Text(<<>>),
        Line(<<"Y">>), Line(<<",", "X", ";", "end">>)>>,
      <<Head1, Line(<<"X", "=", "1", ";", "x", "end">>)>>,
      <<Text(<<"#">>), Head1>>,
      <<Head1, Line(<<"X", "=", "1", ";", "end", "X">>)>>,
      <<Head1, Line(<<"X", "=", "1", ";", "end">>), Line(<<";">>)>>,
      <<Head1, Line(<<"end">>)>>,
      <<Head1,
        Line(<<"if", "(", "1", "<", "2", ")", "then", "else", "X", "=", "1",
               ";", "end", ";", "end">>)>>,
      <<Line(<<"program", "begin", "X", "=", "1", ";", "end">>)>>,
      <<Text(<<>>), Line(<<"program">>), Text(<<" ", " ">>),
        Line(<<"int", "X", ";">>), Text(<<>>),
        Line(<<"begin">>), Text(<<>>), Line(<<"X", "=", "1", ";">>),
        Text(<<>>), Line(<<"write", "X", ";">>), Line(<<"end">>),
        Text(<<>>)>>,
      <<Head1, Line(<<"read", "X", ";">>),
        Line(<<"if", "[", "(", "X", ">", "0", ")", "&&", "!", "(", "X", ">=",
               "9", ")", "]", "then", "Y", "=", "1", ";">>),
        Line(<<"else", "Y", "=", "2", ";", "end", ";">>),
        Line(<<"write", "Y", ";", "end">>)>>,
      <<Head1, Line(<<"X", "=", "0", ";">>),
        Line(<<"if", "[", "(", "X", "!=", "0", ")", "||", "(", "Y", "==",
               "0", ")", "]", "then", "X", "=", "1", ";", "end", ";">>),
        Line(<<"write", "X", ";", "end">>)>>,
      <<Head1, Line(<<"X", "=", "0", ";">>),
        Line(<<"if", "[", "(", "X", "!=", "0", ")", "&&", "(", "Y", "==",
               "0", ")", "]", "then", "X", "=", "1", ";", "end", ";">>),
        Line(<<"write", "X", ";", "end">>)>>,
      <<Head1, Line(<<"X", "=", "0", ";", "Y", "=", "0", ";">>),
        Line(<<"if", "[", "(", "X", "!=", "0", ")", "&&", "(", "Y", "==",
               "0", ")", "]", "then", "X", "=", "1", ";", "end", ";">>),
        Line(<<"write", "X", ";", "end">>)>>,
      <<Head1, Line(<<"X", "=", "2", "+", "3", "*", "4", ";">>),
        Line(<<"Y", "=", "2", "*", "3", "+", "4", ";">>),
        Line(<<"X", "=", "(", "2", "+", "3", ")", "*", "4", ";", "end">>)>>,
      <<Head1, Line(<<"X", "=", "0", ";">>),
        Line(<<"while", "(", "X", "<", "2", ")", "loop", "X", "=", "X", "+",
               "1", ";", "end", ";">>),
        Line(<<"write", "X", ";", "end">>)>>,
      <<Head1, Line(<<"X", "=", "1", "end", "x">>)>>,
      <<Head1, Line(<<"Z", "=", "1", ";", "x">>)>>,
      <<Head1, Line(<<"X", "=", "0", ";">>),
        Line(<<"while", "(", "X", "<", "2", ")", "loop">>),
        Line(<<"if", "(", "X", "==", "1", ")", "then", "write", "X", ";",
               "end", ";">>),
        Line(<<"X", "=", "X", "+", "1", ";", "end", ";", "end">>)>>,
      <<Head1, Line(<<"X", "=", "1", "-", "2", ";", "Y", "=", "5", "-", "2",
                      "-", "1", ";", "write", "X", ",", "Y", ";", "end">>)>>,
      <<Head1, Line(<<"X", "=", "(", "1", "+", "2", ")", "*", "3", ";",
                      "write", "X", ";", "write", "X", ";", "end">>)>>,
      Cut(<<Head1, Line(<<"X", "=", "1", ";", "end">>)>>),
      <<Text(<<"program", " ", "int", " ", "X", ",", "Y", ";", "begin", " ",
               "X", "=", "1", "2", ";", "Y", "=", "X", "*", "X", ";",
               "write", " ", "Y", ";", "end">>)>>,
      <<Head1, Line(<<"1", "=", "X", ";", "end">>)>>,
      <<Head1, Line(<<"X", "=", "1", "end">>)>>,
      <<Head1, Line(<<"X", "=", "Y", "+", "X", ";", "end">>)>>,
      <<Head1, Line(<<"if", "(", "Y", "<", "X", ")", "then", "X", "=", "1",
                      ";", "end", ";", "end">>)>>,
      <<Head1, Line(<<"write", "Y", ";", "end">>)>>,
      <<Head1, Line(<<"X", "=">>)>>,
      <<Head1, Line(<<"read", "X", ";", "read", "Y", ",", "X", ";",
                      "write", "X", ",", "Y", ";", "end">>)>>,
      <<Head1, Line(<<"while", "(", "1", "<", "2", ")", "loop", "read",
                      "X", ";", "end", ";", "end">>)>> }

\* data files for the generated programs
GeneratedData ==
    { <<Text(<<"7">>), Text(<<"-", "3">>), Text(<<"4">>)>>,
      <<Text(<<"0">>)>> }

\* data files for the programs written out in full
ScenarioData ==
    { <<>>,
      <<Text(<<"7">>)>>,
      <<Text(<<"7">>), Text(<<"-", "3">>), Text(<<"4">>)>>,
      <<Text(<<"7">>), Text(<<>>), Text(<<"4">>)>>,
      <<Text(<<" ", "1", "_", "0", " ">>), Text(<<"x">>)>>,
      Cut(<<Text(<<"1">>), Text(<<"+", "5">>)>>) }

\* a program with each kind of condition, an expression in parentheses and
\* a two-sided if
ReferenceWords ==
    <<"program", "int", "X", ";", "begin", "if", "[", "!", "(", "X", "<",
      "1", ")", "&&", "(", "X", "==", "(", "2", "*", "3", ")", ")", "]",
      "then", "X", "=", "1", ";", "else", "read", "X", ";", "end", ";",
      "end">>

\* words with its k-th word left out, and with its k-th word written twice
Without(words, k) ==
    SubSeq(words, 1, k - 1) \o SubSeq(words, k + 1, Len(words))

Doubled(words, k) == SubSeq(words, 1, k) \o SubSeq(words, k, Len(words))

\* the reference program with one word left out or written twice (most
\* are not programs, some are), two programs with an empty body, a
\* program with a while inside an if inside a while, one that adds to an
\* identifier that has no value, one whose second write statement names an
\* identifier that has no value, and one that stores, compares and writes
\* a negative difference
EditedSources ==
    {<<Line(Without(ReferenceWords, k))>> : k \in DOMAIN ReferenceWords}
    \cup {<<Line(Doubled(ReferenceWords, k))>> : k \in DOMAIN ReferenceWords}
    \cup {<<Line(<<"program", "int", "X", ";", "begin", "while", "(", "X",
                     "<", "1", ")", "loop", "end", ";", "end">>)>>,
          <<Line(<<"program", "int", "X", ";", "begin", "if", "(", "X", "<",
                   "1", ")", "then">>),
            Line(<<"end", ";", "end">>)>>,
          <<Line(<<"program", "int", "X", ",", "Y", ";", "int", "Z", ";",
                   "begin", "X", "=", "0", ";">>),
            Line(<<"while", "(", "X", "<", "2", ")", "loop", "if", "(", "X",
                   "==", "1", ")", "then">>),
            Line(<<"while", "(", "X", "<", "1", ")", "loop", "X", "=", "1",
                   ";", "end", ";">>),
            Line(<<"else", "X", "=", "X", "+", "1", ";", "write", "X", ";",
                   "end", ";">>),
            Line(<<"X", "=", "X", "+", "1", ";", "end", ";", "end">>)>>,
          <<Line(<<"program", "int", "X", ";", "begin", "X", "=", "X", "+",
                   "1", ";", "end">>)>>,
          <<Line(<<"program", "int", "X", ",", "Y", ";", "begin", "X", "=",
                   "1", ";", "write", "X", ";">>),
            Line(<<"write", "X", ",", "Y", ";", "end">>)>>,
          <<Line(<<"program", "int", "X", ";", "begin", "X", "=", "1", "-",
                   "2", ";">>),
            Line(<<"if", "(", "X", "<", "0", ")", "then", "write", "X", ";",
                   "end", ";", "end">>)>>}

\* a second program, with the statements the reference program lacks
LoopWords ==
    <<"program", "int", "X", ",", "Y", ";", "begin", "while", "(", "X", "<",
      "1", ")", "loop", "read", "X", ",", "Y", ";", "write", "X", ";", "X",
      "=", "1", "+", "2", "-", "Y", "*", "3", ";", "end", ";", "end">>

\* the two programs cut off after each of their words: the file ends where
\* a parse routine expects more
CutSources ==
    {<<Line(SubSeq(ReferenceWords, 1, k))>> : k \in DOMAIN ReferenceWords}
    \cup {<<Line(SubSeq(LoopWords, 1, k))>> : k \in DOMAIN LoopWords}

\* the two programs with one word replaced by a character that is in no
\* token, on one line and with the line broken before that word
Spoilt(words, k) == [words EXCEPT ![k] = "#"]

SpoiltSources ==
    {<<Line(Spoilt(ReferenceWords, k))>> : k \in DOMAIN ReferenceWords}
    \cup {<<Line(Spoilt(LoopWords, k))>> : k \in DOMAIN LoopWords}
    \cup {<<Line(SubSeq(LoopWords, 1, k - 1)),
            Line(SubSeq(Spoilt(LoopWords, k), k, Len(LoopWords)))>> :
             k \in 2..Len(LoopWords)}

Inputs ==
    (GeneratedSources \X GeneratedData) \cup (ScenarioSources \X ScenarioData)
    \cup ((EditedSources \cup CutSources \cup SpoiltSources) \X {<<>>})


----------------------------------------------------------------------------
(* interpret.py: main() and the steps of the run *)

Init ==
    /\ \E i \in Inputs : src = i[1] /\ datafile = i[2]
    /\ tokenizer = NewTokenizer(src)
    /\ pc = "parse"
    /\ err = NoErr
    /\ stack = <<Call("Prog", 0, 0)>>
    /\ nodes = <<>>
    /\ decl_seq_path = TRUE
    /\ declared_ids = <<>>
    /\ program = None
    /\ stdout = <<>>
    /\ is_output = FALSE
    /\ data = [state |-> "unopened", pos |-> 0]
    /\ todo = <<>>
    /\ hist = <<>>

\* an exception no one catches ends the process with a traceback
Uncaught(exception) == Err("uncaught", exception, <<>>, 0, 0)

\* what follows the calls of context_free_error_checker of a stage, which
\* returned c: the context-sensitive error, or skip_token
AfterChecks(o, c) ==
    IF c.err.kind # "none" \/ c.t.raised = "ValueError" THEN c
    ELSE IF o.cs # <<>>
    THEN ContextSensitiveError(c.t, o.cs, decl_seq_path)
    ELSE IF o.skip THEN [t |-> SkipToken(c.t, src), err |-> NoErr]
    ELSE c

\* the calls a stage makes on the tokenizer: the tokenizer they leave and
\* the error they exit with
Run(o) ==
    IF o.peek /\ GetTokenRaises(tokenizer) THEN LexicalExit(tokenizer)
    ELSE AfterChecks(o, CheckAll(tokenizer, src, o.expect))

\* the state a stage leaves when context_free_error_checker writes its
\* message and returns to the routine that called it
Commit_ErrorReturns(o, c) ==
    /\ tokenizer' = c.t
    /\ declared_ids' = o.ids
    /\ decl_seq_path' = o.dsp
    /\ IF c.t.raised = "ValueError"
       THEN /\ pc' = "exit"
            /\ err' = Uncaught("ValueError")
            /\ UNCHANGED <<stack, nodes, program>>
       ELSE /\ stack' = o.push \o Tail(stack)
            /\ nodes' = o.nodes
            /\ err' = IF c.err.kind # "none" THEN c.err ELSE err
            /\ IF stack' = <<>>
               THEN pc' = "print" /\ program' = Head(o.nodes)
               ELSE UNCHANGED <<pc, program>>

\* the state a stage leaves; c is what its calls on the tokenizer left
Commit(o, c) ==
    /\ tokenizer' = c.t
    /\ declared_ids' = o.ids
    /\ decl_seq_path' = o.dsp
    /\ IF c.t.raised = "ValueError"
       THEN /\ pc' = "exit"
            /\ err' = Uncaught("ValueError")
            /\ UNCHANGED <<stack, nodes, program>>
       ELSE IF c.err.kind # "none"
       THEN /\ pc' = "exit"
            /\ err' = c.err
            /\ UNCHANGED <<stack, nodes, program>>
       ELSE /\ stack' = o.push \o Tail(stack)
            /\ nodes' = o.nodes
            /\ err' = err
            /\ IF stack' = <<>>
               THEN pc' = "print" /\ program' = Head(o.nodes)
               ELSE UNCHANGED <<pc, program>>

\* the stage of routine r at the top of the parser's stack runs; o is
\* what it does
ParseStep(r, o) ==
    /\ pc = "parse"
    /\ stack # <<>>
    /\ Head(stack).r = r
    /\ Commit(o, Run(o))
    /\ UNCHANGED <<src, datafile, stdout, is_output, data, todo, hist>>

ProgParse == ParseStep("Prog", Prog_parse(Head(stack)))
DeclSeqParse == ParseStep("DeclSeq", DeclSeq_parse(Head(stack)))
DeclParse == ParseStep("Decl", Decl_parse(Head(stack)))
IdListParse == ParseStep("IdList", IdList_parse(Head(stack)))
IdParse == ParseStep("Id", Id_parse(Head(stack)))
StmtSeqParse == ParseStep("StmtSeq", StmtSeq_parse(Head(stack)))
StmtParse == ParseStep("Stmt", Stmt_parse(Head(stack)))
InParse == ParseStep("In", In_parse(Head(stack)))
OutParse == ParseStep("Out", Out_parse(Head(stack)))
LoopParse == ParseStep("Loop", Loop_parse(Head(stack)))
IfParse == ParseStep("If", If_parse(Head(stack)))
CondParse == ParseStep("Cond", Cond_parse(Head(stack)))
CompParse == ParseStep("Comp", Comp_parse(Head(stack)))
CompOpParse == ParseStep("CompOp", CompOp_parse(Head(stack)))
AssignParse == ParseStep("Assign", Assign_parse(Head(stack)))
ExpParse == ParseStep("Exp", Exp_parse(Head(stack)))
FacParse == ParseStep("Fac", Fac_parse(Head(stack)))
OpParse == ParseStep("Op", Op_parse(Head(stack)))
ParenthExpParse == ParseStep("ParenthExp", ParenthExp_parse(Head(stack)))
IntParse == ParseStep("Int", Int_parse(Head(stack)))

\* main with a print that goes on to show the first line of the data file
ProgPrint_ShowsData ==
    /\ pc = "print"
    /\ stdout' = stdout \o Prog_print(program, declared_ids)
                 \o (IF datafile = <<>> THEN <<>> ELSE datafile[1])
    /\ pc' = "open"
    /\ UNCHANGED <<src, datafile, tokenizer, err, stack, nodes,
                   decl_seq_path, declared_ids, program, is_output, data,
                   todo, hist>>

\* main: program.print()
ProgPrint ==
    /\ pc = "print"
    /\ stdout' = stdout \o Prog_print(program, declared_ids)
    /\ pc' = "open"
    /\ UNCHANGED <<src, datafile, tokenizer, err, stack, nodes,
                   decl_seq_path, declared_ids, program, is_output, data,
                   todo, hist>>

\* main: data = open(args.data, 'r'), and the call program.execute(data)
OpenData ==
    /\ pc = "open"
    /\ data' = [state |-> "open", pos |-> 0]
    /\ todo' = <<ExFrame("Prog", program, FALSE, 0)>>
    /\ pc' = "execute"
    /\ UNCHANGED <<src, datafile, tokenizer, err, stack, nodes,
                   decl_seq_path, declared_ids, program, stdout, is_output,
                   hist>>

\* the execute call of class r at the top of the executor's stack runs;
\* o is what it does
ExecStep(r, o) ==
    /\ pc = "execute"
    /\ todo # <<>>
    /\ Head(todo).r = r
    /\ Len(hist) < MaxSteps
    /\ declared_ids' = o.ids
    /\ stdout' = stdout \o o.out
    /\ is_output' = o.io
    /\ data' = o.data
    /\ hist' = hist \o o.evs
    /\ IF o.err.kind # "none"
       THEN pc' = "exit" /\ err' = o.err /\ todo' = todo
       ELSE pc' = pc /\ err' = err /\ todo' = o.push \o Tail(todo)
    /\ UNCHANGED <<src, datafile, tokenizer, stack, nodes, decl_seq_path,
                   program>>

ProgExecute == ExecStep("Prog", Prog_execute(Head(todo)))
StmtSeqExecute == ExecStep("StmtSeq", StmtSeq_execute(Head(todo)))
StmtExecute == ExecStep("Stmt", Stmt_execute(Head(todo)))
InExecute == ExecStep("In", In_execute(Head(todo)))
OutExecute == ExecStep("Out", Out_execute(Head(todo)))
AssignExecute == ExecStep("Assign", Assign_execute(Head(todo)))
IfExecute == ExecStep("If", If_execute(Head(todo)))
LoopExecute == ExecStep("Loop", Loop_execute(Head(todo)))
IdListExecute == ExecStep("IdList", IdList_execute(Head(todo)))

\* main: data.close(), after program.execute(data) has returned
CloseData ==
    /\ pc = "execute"
    /\ todo = <<>>
    /\ data' = [data EXCEPT !.state = "closed"]
    /\ pc' = "done"
    /\ UNCHANGED <<src, datafile, tokenizer, err, stack, nodes,
                   decl_seq_path, declared_ids, program, stdout, is_output,
                   todo, hist>>

Next ==
    \/ ProgParse \/ DeclSeqParse \/ DeclParse \/ IdListParse \/ IdParse
    \/ StmtSeqParse \/ StmtParse \/ InParse \/ OutParse \/ LoopParse
    \/ IfParse \/ CondParse \/ CompParse \/ CompOpParse \/ AssignParse
    \/ ExpParse \/ FacParse \/ OpParse \/ ParenthExpParse \/ IntParse
    \/ ProgPrint \/ OpenData
    \/ ProgExecute \/ StmtSeqExecute \/ StmtExecute \/ InExecute
    \/ OutExecute \/ AssignExecute \/ IfExecute \/ LoopExecute
    \/ IdListExecute \/ CloseData

Spec == Init /\ [][Next]_vars

----------------------------------------------------------------------------
(* core.py: the Tokenizer used on its own, by a client that calls          *)
(* get_token and skip_token in any order.  hist holds the last call.       *)

\* lines of the files the client's tokenizer reads
TokLines ==
    { Line(<<"end">>),
      Line(<<"X", "=", "1", ";">>),
      Text(<<"while", "(", "A", "1", "!=", "2", "3", ")">>),
      Text(<<" ", " ">>),
      Text(<<"I", "F", " ", "x">>) }

\* legal tokens with their numbers: every reserved word and special
\* symbol, two integers and three identifiers
LegalTokens ==
    {[s |-> RESERVED[i], n |-> i] : i \in DOMAIN RESERVED}
    \cup {[s |-> SPECIAL[i], n |-> Len(RESERVED) + i] : i \in DOMAIN SPECIAL}
    \cup {[s |-> w, n |-> INTEGER] : w \in {<<"1">>, <<"1", "2">>}}
    \cup {[s |-> w, n |-> IDENTIFIER] :
             w \in {<<"X">>, <<"A", "B">>, <<"X", "1">>}}

\* a line that holds a and then b with nothing between them
Adjacent(a, b) == a.s \o b.s \o <<"\n">>

\* runs of one to four capitals and digits
MunchRuns ==
    UNION {[1..m -> {"A", "B", "1", "2"}] : m \in 1..4}

\* a line that holds the words with the separator between them
Separated(a, separator, b) == a \o <<separator>> \o b \o <<"\n">>

\* lines that hold a run of digits, white space and an identifier
MunchLines ==
    {Separated(a, s, b) : a \in {<<"1">>, <<"1", "2">>}, s \in {" ", "\t"},
                          b \in {<<"A">>, <<"A", "B">>, <<"A", "1">>}}

\* the characters that begin a special symbol of two characters
SymbolStarts ==
    SPECIAL_AMBIGUOUS_FINAL_STATES \cup SPECIAL_INTERMEDIATE_STATES

\* what follows such a character: up to two characters, or nothing
SymbolTails ==
    UNION {[1..m -> {"=", "&", "|", "!", "X", " "}] : m \in 0..2}

\* lines that begin with such a character, with and without their newline
SymbolLines ==
    {<<c>> \o tail \o <<"\n">> : c \in SymbolStarts, tail \in SymbolTails}
    \cup {<<c>> \o tail : c \in SymbolStarts, tail \in SymbolTails}

\* the reserved words and their beginnings
ReservedPrefixes ==
    UNION {{SubSeq(RESERVED[i], 1, n) : n \in 1..Len(RESERVED[i])} :
             i \in DOMAIN RESERVED}

\* runs of lowercase letters: the reserved words, their beginnings, those
\* with a letter more, and runs that begin no reserved word
LowerRuns ==
    ReservedPrefixes
    \cup {Append(p, c) : p \in ReservedPrefixes, c \in {"x", "e"}}
    \cup {<<"a", "b">>, <<"x", "i", "f">>}

\* what ends a run: the end of the line or of the file, white space, or a
\* special symbol
RunEnds ==
    { <<"\n">>, <<>>, <<" ", "X", "\n">>, <<"\t", "\n">>, <<";", "\n">>,
      <<"&", "&", "\n">>, <<"=", "=">>, <<"(", "\n">> }

\* files in which lines with a token, empty lines and lines of white space
\* come in every order
BlankFiles ==
    UNION {[1..m -> {Line(<<"end">>), <<"\n">>, <<" ", "\t", "\n">>}] :
             m \in 1..(MaxLines + 2)}

\* every file of at most MaxLines of these lines, and every file of one
\* line that holds two legal tokens with nothing between them, a run of
\* capitals and digits, or a run of digits and an identifier
TokSources ==
    UNION {[1..m -> TokLines] : m \in 0..MaxLines}
    \cup {<<Adjacent(a, b)>> : a, b \in LegalTokens}
    \cup {<<Append(w, "\n")>> : w \in MunchRuns}
    \cup {<<l>> : l \in MunchLines}
    \cup {<<l>> : l \in SymbolLines}
    \cup {<<r \o e>> : r \in LowerRuns, e \in RunEnds}
    \cup BlankFiles

InitTok ==
    /\ src \in TokSources
    /\ datafile = <<>>
    /\ tokenizer = NewTokenizer(src)
    /\ pc = "client"
    /\ err = NoErr
    /\ stack = <<>>
    /\ nodes = <<>>
    /\ decl_seq_path = TRUE
    /\ declared_ids = <<>>
    /\ program = None
    /\ stdout = <<>>
    /\ is_output = FALSE
    /\ data = [state |-> "unopened", pos |-> 0]
    /\ todo = <<>>
    /\ hist = <<>>

\* the client calls Tokenizer.get_token
get_token ==
    /\ pc = "client"
    /\ IF GetTokenRaises(tokenizer)
       THEN /\ tokenizer' = GetTokenExit(tokenizer)
            /\ pc' = "exit"
            /\ err' = LexicalExit(tokenizer).err
            /\ hist' = <<Ev("get_token", 0, 0, 0, FALSE)>>
       ELSE /\ hist' = <<Ev("get_token", 0, CurrentToken(tokenizer), 0, TRUE)>>
            /\ UNCHANGED <<tokenizer, pc, err>>
    /\ UNCHANGED <<src, datafile, stack, nodes, decl_seq_path, declared_ids,
                   program, stdout, is_output, data, todo>>

\* the client calls Tokenizer.skip_token; nothing catches the ValueError
skip_token ==
    /\ pc = "client"
    /\ tokenizer' = SkipToken(tokenizer, src)
    /\ IF tokenizer'.raised = "ValueError"
       THEN /\ pc' = "exit"
            /\ err' = Uncaught("ValueError")
            /\ hist' = <<Ev("skip_token", 0, 0, 0, FALSE)>>
       ELSE /\ hist' = <<Ev("skip_token", 0, 0, 0, TRUE)>>
            /\ UNCHANGED <<pc, err>>
    /\ UNCHANGED <<src, datafile, stack, nodes, decl_seq_path, declared_ids,
                   program, stdout, is_output, data, todo>>

NextTok == get_token \/ skip_token

SpecTok == InitTok /\ [][NextTok]_vars

----------------------------------------------------------------------------
(* The parser alone, as a process that always takes its next step: main()  *)
(* calls Prog.parse once, and each routine runs to its return or to the    *)
(* exit of the process.                                                    *)

ParseSources == {i[1] : i \in Inputs}

InitParse ==
    /\ src \in ParseSources
    /\ datafile = <<>>
    /\ tokenizer = NewTokenizer(src)
    /\ pc = "parse"
    /\ err = NoErr
    /\ stack = <<Call("Prog", 0, 0)>>
    /\ nodes = <<>>
    /\ decl_seq_path = TRUE
    /\ declared_ids = <<>>
    /\ program = None
    /\ stdout = <<>>
    /\ is_output = FALSE
    /\ data = [state |-> "unopened", pos |-> 0]
    /\ todo = <<>>
    /\ hist = <<>>

NextParse ==
    \/ ProgParse \/ DeclSeqParse \/ DeclParse \/ IdListParse \/ IdParse
    \/ StmtSeqParse \/ StmtParse \/ InParse \/ OutParse \/ LoopParse
    \/ IfParse \/ CondParse \/ CompParse \/ CompOpParse \/ AssignParse
    \/ ExpParse \/ FacParse \/ OpParse \/ ParenthExpParse \/ IntParse

\* weak fairness of the parser's step, WF_vars(NextParse), with its
\* ENABLED <<NextParse>>_vars written out: a stage is at the top of the stack
ParseFairness ==
    \/ []<>~(pc = "parse" /\ stack # <<>>)
    \/ []<><<NextParse>>_vars

SpecParse == InitParse /\ [][NextParse]_vars /\ ParseFairness

----------------------------------------------------------------------------
(* The printer's output read back: the text Prog.print wrote becomes the   *)
(* program file of a new run of main() up to the call of print.  hist      *)
(* holds one entry, the shape of the tree whose print is being read.       *)

RECURSIVE Shape(_, _)
\* the tree n with the names of its identifiers in the place of their
\* objects and without the line numbers the parser recorded
Shape(n, ids) ==
    CASE n.k = "Prog" ->
           [k |-> n.k, decl_seq |-> Shape(n.decl_seq, ids),
            stmt_seq |-> Shape(n.stmt_seq, ids)]
      [] n.k = "DeclSeq" ->
           [k |-> n.k, decl |-> Shape(n.decl, ids),
            decl_seq |-> Shape(n.decl_seq, ids)]
      [] n.k \in {"Decl", "In", "Out"} ->
           [k |-> n.k, id_list |-> Shape(n.id_list, ids)]
      [] n.k = "IdList" ->
           [k |-> n.k, id |-> ids[n.id].name,
            id_list |-> Shape(n.id_list, ids)]
      [] n.k = "StmtSeq" ->
           [k |-> n.k, stmt |-> Shape(n.stmt, ids),
            stmt_seq |-> Shape(n.stmt_seq, ids),
            indent_level |-> n.indent_level]
      [] n.k = "Stmt" ->
           [k |-> n.k, alt |-> n.alt, node |-> Shape(n.node, ids),
            indent_level |-> n.indent_level]
      [] n.k = "Loop" ->
           [k |-> n.k, condition |-> Shape(n.condition, ids),
            stmt_seq |-> Shape(n.stmt_seq, ids),
            indent_level |-> n.indent_level]
      [] n.k = "If" ->
           [k |-> n.k, condition |-> Shape(n.condition, ids),
            then_stmt_seq |-> Shape(n.then_stmt_seq, ids),
            else_stmt_seq |-> Shape(n.else_stmt_seq, ids),
            indent_level |-> n.indent_level]
      [] n.k = "Cond" ->
           [k |-> n.k, comparison |-> Shape(n.comparison, ids),
            not_condition |-> Shape(n.not_condition, ids),
            left_condition |-> Shape(n.left_condition, ids),
            conjunction_right_condition |->
                Shape(n.conjunction_right_condition, ids),
            disjunction_right_condition |->
                Shape(n.disjunction_right_condition, ids)]
      [] n.k = "Comp" ->
           [k |-> n.k, left_operand |-> Shape(n.left_operand, ids),
            comp_operator |-> n.comp_operator,
            right_operand |-> Shape(n.right_operand, ids)]
      [] n.k = "Assign" ->
           [k |-> n.k, id |-> ids[n.id].name,
            expression |-> Shape(n.expression, ids)]
      [] n.k = "Exp" ->
           [k |-> n.k, factor |-> Shape(n.factor, ids),
            add_expression |-> Shape(n.add_expression, ids),
            subtract_expression |-> Shape(n.subtract_expression, ids)]
      [] n.k = "Fac" ->
           [k |-> n.k, operand |-> Shape(n.operand, ids),
            factor |-> Shape(n.factor, ids)]
      [] n.k = "Op" ->
           [k |-> n.k, int |-> n.int,
            id |-> IF n.id = 0 THEN <<>> ELSE ids[n.id].name,
            parenth_exp |-> Shape(n.parenth_exp, ids)]
      [] n.k = "ParenthExp" ->
           [k |-> n.k, expression |-> Shape(n.expression, ids)]
      [] OTHER -> n

RECURSIVE SplitLines(_)
\* the lines of a text, each with its newline
SplitLines(text) ==
    IF text = <<>> THEN <<>>
    ELSE LET n == IF \E i \in DOMAIN text : text[i] = "\n"
                  THEN CHOOSE i \in DOMAIN text :
                           /\ text[i] = "\n"
                           /\ \A j \in 1..(i - 1) : text[j] # "\n"
                  ELSE Len(text)
         IN  <<SubSeq(text, 1, n)>>
             \o SplitLines(SubSeq(text, n + 1, Len(text)))

RoundTripSources == GeneratedSources \cup ScenarioSources \cup EditedSources

InitRoundTrip ==
    /\ src \in RoundTripSources
    /\ datafile = <<>>
    /\ tokenizer = NewTokenizer(src)
    /\ pc = "parse"
    /\ err = NoErr
    /\ stack = <<Call("Prog", 0, 0)>>
    /\ nodes = <<>>
    /\ decl_seq_path = TRUE
    /\ declared_ids = <<>>
    /\ program = None
    /\ stdout = <<>>
    /\ is_output = FALSE
    /\ data = [state |-> "unopened", pos |-> 0]
    /\ todo = <<>>
    /\ hist = <<>>

\* main() is started on the text that program.print() has written
Reparse ==
    /\ pc = "open"
    /\ src' = SplitLines(stdout)
    /\ tokenizer' = NewTokenizer(src')
    /\ pc' = "parse"
    /\ stack' = <<Call("Prog", 0, 0)>>
    /\ nodes' = <<>>
    /\ decl_seq_path' = TRUE
    /\ declared_ids' = <<>>
    /\ program' = None
    /\ stdout' = <<>>
    /\ hist' = <<Shape(program, declared_ids)>>
    /\ UNCHANGED <<datafile, err, is_output, data, todo>>

NextRoundTrip ==
    \/ ProgParse \/ DeclSeqParse \/ DeclParse \/ IdListParse \/ IdParse
    \/ StmtSeqParse \/ StmtParse \/ InParse \/ OutParse \/ LoopParse
    \/ IfParse \/ CondParse \/ CompParse \/ CompOpParse \/ AssignParse
    \/ ExpParse \/ FacParse \/ OpParse \/ ParenthExpParse \/ IntParse
    \/ ProgPrint \/ Reparse

SpecRoundTrip == InitRoundTrip /\ [][NextRoundTrip]_vars

----------------------------------------------------------------------------
(* Two runs of one program: main() is run up to the return of print, and   *)
(* then run again, to its end, on the same program file and another data   *)
(* file.  hist begins with an entry that holds the text the first run      *)
(* printed.                                                                *)

\* the data files a program is run with
DataFor(file) == {i[2] : i \in {j \in Inputs : j[1] = file}}

InitTwoRuns ==
    /\ \E i \in ScenarioSources \X ScenarioData :
          src = i[1] /\ datafile = i[2]
    /\ tokenizer = NewTokenizer(src)
    /\ pc = "parse"
    /\ err = NoErr
    /\ stack = <<Call("Prog", 0, 0)>>
    /\ nodes = <<>>
    /\ decl_seq_path = TRUE
    /\ declared_ids = <<>>
    /\ program = None
    /\ stdout = <<>>
    /\ is_output = FALSE
    /\ data = [state |-> "unopened", pos |-> 0]
    /\ todo = <<>>
    /\ hist = <<>>

\* main() is started again on the same program and another data file
Rerun ==
    /\ pc = "open"
    /\ hist = <<>>
    /\ \E d \in DataFor(src) \ {datafile} : datafile' = d
    /\ tokenizer' = NewTokenizer(src)
    /\ pc' = "parse"
    /\ stack' = <<Call("Prog", 0, 0)>>
    /\ nodes' = <<>>
    /\ decl_seq_path' = TRUE
    /\ declared_ids' = <<>>
    /\ program' = None
    /\ stdout' = <<>>
    /\ hist' = <<[e |-> "run", text |-> stdout]>>
    /\ UNCHANGED <<src, err, is_output, data, todo>>

NextTwoRuns == Next \/ Rerun

SpecTwoRuns == InitTwoRuns /\ [][NextTwoRuns]_vars

----------------------------------------------------------------------------
(* Properties of the interpreter (Spec) and of the tokenizer (SpecTok).    *)

\* Prog.parse has returned: the tree is built and the cursor is at EOF
Parsed ==
    /\ ~IsNone(program)
    /\ stack = <<>>
    /\ tokenizer.tokens # <<>>
    /\ CurrentToken(tokenizer) = EOF

\* text was printed, the data file was opened or an execute call was made
Started ==
    \/ stdout # <<>>
    \/ data.state # "unopened"
    \/ todo # <<>>
    \/ hist # <<>>

ParseErrors == {"lexical", "context-free", "context-sensitive"}

\* C1: nothing is printed, the data file is not opened and nothing
\* executes before Prog.parse has returned with the EOF token matched; a run
\* that ends in a lexical, context-free or context-sensitive error has
\* printed nothing and executed nothing.
C1_ParseBeforeAll ==
    /\ Started => Parsed /\ pc # "parse"
    /\ pc \in {"print", "open", "execute", "done"} => Parsed
    /\ err.kind \in ParseErrors => pc = "exit" /\ ~Started /\ IsNone(program)

\* a run that a context-sensitive error in the statements has ended
C1_Witness ==
    /\ pc = "exit"
    /\ err.kind = "context-sensitive"
    /\ ~decl_seq_path
    /\ ~Started

\* the observation of an identifier evaluated while its flag is false
FailedGet(e) == e.e = "get" /\ ~e.ok

\* C2: an identifier evaluated while its initialized flag is false is the
\* last thing the run does: the run has exited with the uninitialized-
\* identifier runtime error that names it, and it got no value.
C2_UninitializedIsFatal ==
    /\ \A i \in DOMAIN hist :
          FailedGet(hist[i]) =>
             /\ i = Len(hist)
             /\ pc = "exit"
             /\ err.kind = "runtime"
             /\ err.cause = "uninitialized identifier"
             /\ err.name = declared_ids[hist[i].id].name
             /\ ~declared_ids[hist[i].id].initialized
    /\ err.cause = "uninitialized identifier" =>
          hist # <<>> /\ FailedGet(hist[Len(hist)])

\* an uninitialized identifier met after other statements have executed
C2_Witness ==
    \E i \in DOMAIN hist :
       /\ FailedGet(hist[i])
       /\ \E j \in 1..(i - 1) : hist[j].e \in {"assign", "read", "while"}

\* C3: the line the uninitialized-identifier error reports is the line on
\* which the enclosing statement begins.
C3_ErrorLineIsStatementLine ==
    err.cause = "uninitialized identifier" => err.line = err.stmt

\* the cursor of the client's tokenizer is at the EOF token
AtEOF ==
    /\ pc = "client"
    /\ tokenizer.tokens # <<>>
    /\ CurrentToken(tokenizer) = EOF

\* C4: once the current token is EOF, a further skip_token or get_token
\* succeeds and the current token is still EOF.
C4_EofRepeatSafe == [][AtEOF => AtEOF']_vars

\* Id.parse is about to run on an identifier token
IdStage ==
    /\ pc = "parse"
    /\ stack # <<>>
    /\ Head(stack).r = "Id"
    /\ ~GetTokenRaises(tokenizer)
    /\ CurrentToken(tokenizer) = IDENTIFIER

\* C5: in the declarations, an identifier whose name is in the table ends
\* the run with the 'already declared' error at that token, and the table
\* gets no second entry for the name.
C5_DuplicateDeclaration ==
    [][(/\ IdStage
        /\ decl_seq_path
        /\ IdName(tokenizer) \in DeclaredNames(declared_ids))
       => /\ pc' = "exit"
          /\ err'.kind = "context-sensitive"
          /\ err'.cause = "already"
          /\ err'.name = IdName(tokenizer)
          /\ err'.line = tokenizer.line_number
          /\ declared_ids' = declared_ids]_vars

\* a name declared in one list is met again in a later declaration
C5_Witness ==
    /\ pc = "exit"
    /\ err.cause = "already"
    /\ err.line > 1
    /\ \E i \in DOMAIN declared_ids : declared_ids[i].name = err.name

\* C6: in the statements, an identifier whose name is not in the table
\* ends the run with the 'not declared' error; a run that ended so has
\* printed nothing and executed nothing.
C6_UndeclaredUse ==
    /\ [][(/\ IdStage
           /\ ~decl_seq_path
           /\ IdName(tokenizer) \notin DeclaredNames(declared_ids))
          => /\ pc' = "exit"
             /\ err'.kind = "context-sensitive"
             /\ err'.cause = "not"
             /\ err'.name = IdName(tokenizer)
             /\ err'.line = tokenizer.line_number]_vars
    /\ [](err.cause = "not" =>
             pc = "exit" /\ ~Started /\ IsNone(program))
    /\ [][pc = "exit" => pc' = "exit"]_vars

\* an undeclared operand met after statements that parsed
C6_Witness ==
    /\ pc = "exit"
    /\ err.cause = "not"
    /\ err.name = <<"Z">>
    /\ nodes # <<>>
    /\ Len(declared_ids) = 2

\* the names of the table, in the order of their entries
Names(ids) == [i \in DOMAIN ids |-> ids[i].name]

\* C7: the table never holds two entries of one name; an identifier node
\* made while the statements are parsed refers to an entry the table
\* already has, of the token's name; once the declarations are parsed no
\* entry is added or removed.
C7_TableFixedAfterDeclarations ==
    /\ [](\A i, j \in DOMAIN declared_ids :
             declared_ids[i].name = declared_ids[j].name => i = j)
    /\ [][~decl_seq_path => Names(declared_ids') = Names(declared_ids)]_vars
    /\ [][(IdStage /\ ~decl_seq_path /\ pc' # "exit")
          => /\ nodes' # <<>>
             /\ nodes'[1].k = "Id"
             /\ nodes'[1].ref \in DOMAIN declared_ids
             /\ declared_ids[nodes'[1].ref].name = IdName(tokenizer)]_vars

\* a run that has executed to its end with two declared identifiers
C7_Witness ==
    /\ pc = "done"
    /\ Len(declared_ids) = 2
    /\ \E i \in DOMAIN hist : hist[i].e = "assign"

\* the observation of a value stored in identifier i
Stored(e, i) == e.e \in {"assign", "read"} /\ e.ok /\ e.id = i

\* C8: an identifier's initialized flag is true exactly when an assignment
\* or a successful read has targeted it; a new entry has it false and no
\* step turns it from true to false.
C8_InitializedFlag ==
    /\ [](\A i \in DOMAIN declared_ids :
             declared_ids[i].initialized
                <=> \E k \in DOMAIN hist : Stored(hist[k], i))
    /\ [][\A i \in DOMAIN declared_ids' :
             IF i \in DOMAIN declared_ids
             THEN declared_ids[i].initialized => declared_ids'[i].initialized
             ELSE ~declared_ids'[i].initialized]_vars

\* a run at its end with one identifier initialized and one never targeted
C8_Witness ==
    /\ pc = "done"
    /\ \E i, j \in DOMAIN declared_ids :
          declared_ids[i].initialized /\ ~declared_ids[j].initialized

\* the place in hist of the last value stored in identifier i before k
LastStore(i, k) ==
    CHOOSE j \in 0..(k - 1) :
       /\ j # 0 => Stored(hist[j], i)
       /\ \A m \in (j + 1)..(k - 1) : ~Stored(hist[m], i)

\* C9: an evaluation of an identifier returns the value the last
\* assignment or read that targeted it stored; a step changes an
\* identifier's value or flag only by an assignment or read targeting it.
C9_ValueUntilNextStore ==
    /\ [](\A k \in DOMAIN hist :
             (hist[k].e = "get" /\ hist[k].ok) =>
                /\ LastStore(hist[k].id, k) # 0
                /\ hist[LastStore(hist[k].id, k)].v = hist[k].v)
    /\ [](\A i \in DOMAIN declared_ids :
             declared_ids[i].initialized =>
                /\ LastStore(i, Len(hist) + 1) # 0
                /\ hist[LastStore(i, Len(hist) + 1)].v
                       = declared_ids[i].value)
    /\ [][\A i \in DOMAIN declared_ids :
             (pc = "execute" /\ pc' # "exit"
              /\ \/ declared_ids'[i].value # declared_ids[i].value
                 \/ declared_ids'[i].initialized
                        # declared_ids[i].initialized)
             => \E k \in (Len(hist) + 1)..Len(hist') :
                   Stored(hist'[k], i)]_vars

\* X is stored, then another identifier is stored, then X is evaluated
C9_Witness ==
    \E j, m, k \in DOMAIN hist :
       /\ j < m /\ m < k
       /\ Stored(hist[j], hist[k].id)
       /\ hist[m].e \in {"assign", "read"} /\ hist[m].ok
       /\ hist[m].id # hist[k].id
       /\ hist[k].e = "get" /\ hist[k].ok
       /\ hist[k].v # hist[m].v

\* the places in hist of the read targets processed so far
Reads == {k \in DOMAIN hist : hist[k].e = "read"}

\* C10: the k-th read target of a run takes the integer of the k-th line
\* of the data file; the data stream is past as many lines as targets were
\* read; only a read target moves it, by one line; a run may end with data
\* lines left over.
C10_ReadsInDataOrder ==
    /\ [](\A k \in Reads :
             /\ hist[k].k = Cardinality({j \in Reads : j <= k})
             /\ hist[k].ok =>
                   /\ hist[k].k <= Len(datafile)
                   /\ PyInt(datafile[hist[k].k]).ok
                   /\ hist[k].v = PyInt(datafile[hist[k].k]).v)
    /\ [](pc # "exit" =>
             /\ data.pos = Cardinality(Reads)
             /\ \A k \in Reads : hist[k].ok)
    /\ [][data'.pos # data.pos =>
             /\ pc = "execute"
             /\ Head(todo).r = "IdList"
             /\ Head(todo).is_input
             /\ data'.pos = data.pos + 1]_vars
    /\ [](pc = "done" => err = NoErr /\ data.pos <= Len(datafile))

\* a run at its end that read two lines of a data file of three
C10_Witness ==
    /\ pc = "done"
    /\ data.pos = 2
    /\ Len(datafile) = 3
    /\ Cardinality(Reads) = 2

\* a read target is the next execute call
AtReadTarget ==
    /\ pc = "execute"
    /\ todo # <<>>
    /\ Head(todo).r = "IdList"
    /\ Head(todo).is_input

\* the runtime error the next line of the data stream calls for
InputFault(line) ==
    IF line = <<>> THEN "input eof"
    ELSE IF line = <<"\n">> THEN "input empty line"
    ELSE IF ~PyInt(line).ok THEN "input invalid line"
    ELSE "none"

\* C11: a read target that finds the data stream exhausted, an empty
\* line or a line that is no decimal integer ends the run with the runtime
\* error input eof, input empty line or input invalid line; the identifiers
\* are left as they were, and nothing is processed after the error.
C11_InputErrorsAreFatal ==
    /\ [][AtReadTarget =>
             LET cause == InputFault(ReadLine(datafile, data.pos)) IN
             IF cause = "none"
             THEN pc' = "execute" /\ err' = NoErr
             ELSE /\ pc' = "exit"
                  /\ err'.kind = "runtime"
                  /\ err'.cause = cause
                  /\ declared_ids' = declared_ids
                  /\ stdout' = stdout
                  /\ todo' = todo]_vars
    /\ [][pc # "exit"]_vars
    /\ [](err.kind = "runtime" => pc = "exit")

\* a run ended by an empty data line after one line was read, with a
\* statement still to come
C11_Witness ==
    /\ pc = "exit"
    /\ err.kind = "runtime"
    /\ err.cause = "input empty line"
    /\ \E k \in Reads : hist[k].ok
    /\ ~hist[Len(hist)].ok
    /\ Len(todo) > 1

\* a write target is the next execute call
AtWriteTarget ==
    /\ pc = "execute"
    /\ todo # <<>>
    /\ Head(todo).r = "IdList"
    /\ ~Head(todo).is_input

\* the places of stdout at which the banner begins
BannerAt ==
    {i \in DOMAIN stdout :
        /\ i + Len(Banner) - 1 <= Len(stdout)
        /\ SubSeq(stdout, i, i + Len(Banner) - 1) = Banner}

\* the line 'NAME = VALUE' of the write target that is next
TargetLine ==
    LET id == declared_ids[Head(todo).node.id] IN
    id.name \o <<" ", "=", " ">> \o IntToChars(id.value) \o <<"\n">>

\* the execute calls the write target that is next leaves to be made
AfterTarget ==
    IF IsNone(Head(todo).node.id_list) THEN Tail(todo)
    ELSE <<ExFrame("IdList", Head(todo).node.id_list, FALSE,
                   Head(todo).line)>> \o Tail(todo)

\* C12: the banner is printed at most once in a run, by the first write
\* target processed and before that target's line; no other step prints;
\* a run without a write target has no banner; every write target that
\* succeeds prints the one line NAME = VALUE of its identifier and hands on
\* to the target on its right.
C12_BannerOnceThenLines ==
    /\ [](Cardinality(BannerAt) = (IF is_output THEN 1 ELSE 0))
    /\ [](pc \in {"parse", "print", "open"} => ~is_output)
    /\ [][AtWriteTarget =>
             /\ is_output'
             /\ stdout' = stdout
                   \o (IF is_output THEN <<>> ELSE Banner)
                   \o (IF pc' = "exit" THEN <<>> ELSE TargetLine)
             /\ pc' # "exit" =>
                   /\ todo' = AfterTarget
                   /\ hist'[Len(hist')]
                         = Ev("write", Head(todo).node.id,
                              declared_ids[Head(todo).node.id].value, 0,
                              TRUE)]_vars
    /\ [][(pc = "execute" /\ ~AtWriteTarget) =>
             /\ is_output' = is_output
             /\ stdout' = stdout]_vars

\* a finished run that wrote X and then Y: one banner, then the line of
\* X, then the line of Y
C12_Witness ==
    /\ pc = "done"
    /\ Cardinality({k \in DOMAIN hist : hist[k].e = "write"}) = 2
    /\ \E i \in BannerAt :
          SubSeq(stdout, i + Len(Banner), Len(stdout))
             = <<"X", " ", "=", " ", "7", "\n",
                 "Y", " ", "=", " ", "-", "3", "\n">>

\* the condition of an if or while statement is the next execute call
AtCondition ==
    /\ pc = "execute"
    /\ todo # <<>>
    /\ Head(todo).r \in {"If", "Loop"}

\* the condition that is next, as the interpreter evaluates it
ShortCircuit ==
    Cond_evaluate(Head(todo).node.condition, declared_ids,
                  Head(todo).node.line)

\* the condition that is next, with both sides of '&&' and '||' evaluated
Strict ==
    Cond_evaluate_Strict(Head(todo).node.condition, declared_ids,
                         Head(todo).node.line)

\* C13, as claimed: evaluating a condition with short-circuit '&&' and
\* '||' and evaluating it strictly give the same outcome, the same truth
\* value or the same runtime error; conditions change no state, so the runs
\* would then be the same.
C13_StrategiesAgree ==
    AtCondition =>
       /\ ShortCircuit.err = Strict.err
       /\ ShortCircuit.v = Strict.v

\* C13, amended: the two evaluations give the same truth value whenever
\* the strict one ends without error; when the short-circuit one ends in a
\* runtime error so does the strict one, and the only error of either is an
\* uninitialized identifier.
C13_AgreeUnlessStrictFails ==
    AtCondition =>
       /\ Strict.err.kind = "none" =>
             /\ ShortCircuit.err.kind = "none"
             /\ ShortCircuit.v = Strict.v
       /\ ShortCircuit.err.kind # "none" => Strict.err.kind # "none"
       /\ \A r \in {ShortCircuit, Strict} :
             r.err.kind # "none" =>
                /\ r.err.kind = "runtime"
                /\ r.err.cause = "uninitialized identifier"

\* a condition with '&&' whose left side is false and whose right side is
\* true, so that the right side is skipped: both evaluations give false
C13_Witness ==
    /\ AtCondition
    /\ ~IsNone(Head(todo).node.condition.conjunction_right_condition)
    /\ Strict.err.kind = "none"
    /\ ~Strict.v
    /\ Len(Strict.reads) > Len(ShortCircuit.reads)

\* an assignment is the next execute call
AtAssign ==
    /\ pc = "execute"
    /\ todo # <<>>
    /\ Head(todo).r = "Assign"

RECURSIVE ExpChain(_, _)
RECURSIVE FacChain(_, _)
RECURSIVE RightFold(_)
RECURSIVE Product(_)

\* the value of an operand: a literal, an identifier's stored value, or
\* the grouped value of the expression in parentheses
OpValue(n, ids) ==
    IF ~IsNone(n.int) THEN n.int.value
    ELSE IF n.id # 0 THEN ids[n.id].value
    ELSE RightFold(ExpChain(n.parenth_exp.expression, ids))

\* o1 * o2 * ... * on as it is written: the values of the operands
FacChain(n, ids) ==
    <<OpValue(n.operand, ids)>>
    \o (IF IsNone(n.factor) THEN <<>> ELSE FacChain(n.factor, ids))

Product(c) == IF c = <<>> THEN 1 ELSE c[1] * Product(Tail(c))

\* f1 op1 f2 op2 ... fn as it is written: the values of the factors with
\* the operators between them
ExpChain(n, ids) ==
    <<Product(FacChain(n.factor, ids))>>
    \o (IF ~IsNone(n.add_expression)
        THEN <<ADDITION>> \o ExpChain(n.add_expression, ids)
        ELSE IF ~IsNone(n.subtract_expression)
        THEN <<SUBTRACTION>> \o ExpChain(n.subtract_expression, ids)
        ELSE <<>>)

\* f1 op1 (f2 op2 (... fn))
RightFold(c) ==
    IF Len(c) = 1 THEN c[1]
    ELSE IF c[2] = ADDITION THEN c[1] + RightFold(SubSeq(c, 3, Len(c)))
    ELSE c[1] - RightFold(SubSeq(c, 3, Len(c)))

\* the chain of the expression of the assignment that is next
AssignChain == ExpChain(Head(todo).node.expression, declared_ids)

\* C14: an expression f1 op1 f2 ... fn with '+' and '-' evaluates as
\* f1 op1 (f2 op2 (... fn)), the factors taken in the order written and a
\* factor o1 * ... * om being the product of its operands: the value an
\* assignment stores is the chain of its expression grouped from the right.
C14_RightAssociative ==
    [][(AtAssign /\ pc' # "exit") =>
          /\ declared_ids'[Head(todo).node.id].value = RightFold(AssignChain)
          /\ hist'[Len(hist')]
                = Ev("assign", Head(todo).node.id, RightFold(AssignChain),
                     0, TRUE)]_vars

\* Y = 5 - 2 - 1 has stored 4, which is 5 - (2 - 1) and not (5 - 2) - 1
C14_Witness ==
    \E k \in DOMAIN hist :
       /\ hist[k] = Ev("assign", 2, 4, 0, TRUE)
       /\ \E i \in DOMAIN src :
             \E j \in DOMAIN src[i] :
                /\ j + 8 <= Len(src[i])
                /\ SubSeq(src[i], j, j + 8)
                      = <<"5", " ", "-", " ", "2", " ", "-", " ", "1">>

RECURSIVE ExpTokens(_, _)
RECURSIVE FacTokens(_, _)
RECURSIVE Value(_)
RECURSIVE Term(_)

\* a token of an expression with the value it stands for
Tok(t, v) == [t |-> t, v |-> v]

\* the tokens of an operand, a factor and an expression as they are written
OpTokens(n, ids) ==
    IF ~IsNone(n.int) THEN <<Tok(INTEGER, n.int.value)>>
    ELSE IF n.id # 0 THEN <<Tok(IDENTIFIER, ids[n.id].value)>>
    ELSE <<Tok(LEFT_PARENTHESIS, 0)>>
         \o ExpTokens(n.parenth_exp.expression, ids)
         \o <<Tok(RIGHT_PARENTHESIS, 0)>>

FacTokens(n, ids) ==
    OpTokens(n.operand, ids)
    \o (IF IsNone(n.factor) THEN <<>>
        ELSE <<Tok(MULTIPLICATION, 0)>> \o FacTokens(n.factor, ids))

ExpTokens(n, ids) ==
    FacTokens(n.factor, ids)
    \o (IF ~IsNone(n.add_expression)
        THEN <<Tok(ADDITION, 0)>> \o ExpTokens(n.add_expression, ids)
        ELSE IF ~IsNone(n.subtract_expression)
        THEN <<Tok(SUBTRACTION, 0)>> \o ExpTokens(n.subtract_expression, ids)
        ELSE <<>>)

\* the places of ts that hold one of the operators and lie inside no
\* parentheses
Outside(ts, operators) ==
    {i \in DOMAIN ts :
        /\ ts[i].t \in operators
        /\ Cardinality({j \in 1..i : ts[j].t = LEFT_PARENTHESIS})
              = Cardinality({j \in 1..i : ts[j].t = RIGHT_PARENTHESIS})}

First(S) == CHOOSE i \in S : \A j \in S : i <= j

\* an operand: a number, or an expression in parentheses
Operand(ts) ==
    IF ts[1].t = LEFT_PARENTHESIS THEN Value(SubSeq(ts, 2, Len(ts) - 1))
    ELSE ts[1].v

\* a product: split at the '*' outside parentheses
Term(ts) ==
    IF Outside(ts, {MULTIPLICATION}) = {} THEN Operand(ts)
    ELSE Operand(SubSeq(ts, 1, First(Outside(ts, {MULTIPLICATION})) - 1))
         * Term(SubSeq(ts, First(Outside(ts, {MULTIPLICATION})) + 1, Len(ts)))

\* a sum: split at the '+' and '-' outside parentheses, so that '*' binds
\* tighter and parentheses override
Value(ts) ==
    IF Outside(ts, {ADDITION, SUBTRACTION}) = {} THEN Term(ts)
    ELSE LET p == First(Outside(ts, {ADDITION, SUBTRACTION})) IN
         IF ts[p].t = ADDITION
         THEN Term(SubSeq(ts, 1, p - 1)) + Value(SubSeq(ts, p + 1, Len(ts)))
         ELSE Term(SubSeq(ts, 1, p - 1)) - Value(SubSeq(ts, p + 1, Len(ts)))

\* C15: '*' binds tighter than '+' and '-' and parentheses override
\* both: the value an assignment stores is the value of the tokens of its
\* expression read with the products formed first and an expression in
\* parentheses taken as one operand.
C15_Precedence ==
    [][(AtAssign /\ pc' # "exit") =>
          declared_ids'[Head(todo).node.id].value
             = Value(ExpTokens(Head(todo).node.expression, declared_ids))]_vars

\* X = 2 + 3 * 4 has stored 14, Y = 2 * 3 + 4 has stored 10 and
\* X = ( 2 + 3 ) * 4 has stored 20
C15_Witness ==
    /\ hist = <<Ev("assign", 1, 14, 0, TRUE), Ev("assign", 2, 10, 0, TRUE),
                Ev("assign", 1, 20, 0, TRUE)>>
    /\ Len(src) = 4
    /\ src[2] = <<"X", " ", "=", " ", "2", " ", "+", " ", "3", " ", "*", " ",
                  "4", " ", ";", "\n">>

\* a while statement is the next execute call: its condition is tested
AtLoop ==
    /\ pc = "execute"
    /\ todo # <<>>
    /\ Head(todo).r = "Loop"

\* the outcomes of the tests of while conditions made so far
Tests ==
    LET whiles == SelectSeq(hist, LAMBDA e : e.e = "while")
    IN [k \in DOMAIN whiles |-> whiles[k].v]

\* C16: each visit to a while statement tests its condition first; on
\* true the body is executed and the statement is visited again after it,
\* on false the statement is left with nothing changed, so a condition that
\* is false at first gives no iteration; a while statement under way is
\* dropped by no other step, and only a runtime error ends a body early.
C16_WhileTestsFirst ==
    /\ [][AtLoop =>
             LET f == Head(todo)
                 c == Cond_evaluate(f.node.condition, declared_ids,
                                    f.node.line)
             IN
             /\ declared_ids' = declared_ids
             /\ stdout' = stdout
             /\ data.pos' = data.pos
             /\ (c.err.kind # "none") = (pc' = "exit")
             /\ pc' # "exit" =>
                   /\ hist'[Len(hist')]
                         = Ev("while", 0, IF c.v THEN 1 ELSE 0, 0, TRUE)
                   /\ todo' = (IF c.v
                               THEN <<ExFrame("StmtSeq", f.node.stmt_seq,
                                              FALSE, 0), f>>
                               ELSE <<>>) \o Tail(todo)]_vars
    /\ [][(pc = "execute" /\ pc' = "execute" /\ todo # <<>>) =>
             \E n \in 0..Len(todo') :
                Tail(todo) = SubSeq(todo', n + 1, Len(todo'))]_vars
    /\ [](pc = "done" => todo = <<>>)

\* a finished run whose while statement was tested three times, true, true
\* and false, and which then wrote X = 2
C16_Witness ==
    /\ pc = "done"
    /\ Tests = <<1, 1, 0>>
    /\ Len(stdout) > 6
    /\ SubSeq(stdout, Len(stdout) - 5, Len(stdout))
          = <<"X", " ", "=", " ", "2", "\n">>

\* an if statement is the next execute call
AtIf ==
    /\ pc = "execute"
    /\ todo # <<>>
    /\ Head(todo).r = "If"

\* the statement sequence an if statement hands on to, given the truth
\* value of its condition
Chosen(node, truth) ==
    IF truth THEN <<ExFrame("StmtSeq", node.then_stmt_seq, FALSE, 0)>>
    ELSE IF ~IsNone(node.else_stmt_seq)
    THEN <<ExFrame("StmtSeq", node.else_stmt_seq, FALSE, 0)>>
    ELSE <<>>

\* C17: an if statement evaluates its condition once and is then
\* replaced by its then-body when the condition is true, by its else-body
\* when it is false and there is an else, and by nothing otherwise; the step
\* itself changes no identifier, consumes no data line and prints nothing,
\* so an if without else whose condition is false has no effect.
C17_IfChoosesOneBranch ==
    [][AtIf =>
          LET f == Head(todo)
              c == Cond_evaluate(f.node.condition, declared_ids, f.node.line)
          IN
          /\ declared_ids' = declared_ids
          /\ stdout' = stdout
          /\ is_output' = is_output
          /\ data.pos' = data.pos
          /\ (c.err.kind # "none") = (pc' = "exit")
          /\ pc' # "exit" =>
                /\ hist' = hist \o c.reads
                              \o <<Ev("if", 0, IF c.v THEN 1 ELSE 0, 0, TRUE)>>
                /\ todo' = Chosen(f.node, c.v) \o Tail(todo)]_vars

\* a finished run whose last step was an if without else with a false
\* condition: two data lines were read and nothing came after the test
C17_Witness ==
    /\ pc = "done"
    /\ Cardinality(Reads) = 2
    /\ hist[Len(hist)] = Ev("if", 0, 0, 0, TRUE)
    /\ LET s == program.stmt_seq.stmt_seq.stmt IN
       /\ s.alt = "If"
       /\ IsNone(s.node.else_stmt_seq)

RECURSIVE ExpIds(_)
RECURSIVE FacIds(_)

\* the identifiers of an operand, a factor, an expression and a comparison
\* in the order they are written
OpIds(n) ==
    IF ~IsNone(n.int) THEN <<>>
    ELSE IF n.id # 0 THEN <<n.id>>
    ELSE ExpIds(n.parenth_exp.expression)

FacIds(n) ==
    OpIds(n.operand) \o (IF IsNone(n.factor) THEN <<>> ELSE FacIds(n.factor))

ExpIds(n) ==
    FacIds(n.factor)
    \o (IF ~IsNone(n.add_expression) THEN ExpIds(n.add_expression)
        ELSE IF ~IsNone(n.subtract_expression)
        THEN ExpIds(n.subtract_expression)
        ELSE <<>>)

CompIds(n) == OpIds(n.left_operand) \o OpIds(n.right_operand)

\* the place in refs of the first identifier that is not initialized, or 0
FirstUninitialized(refs) ==
    IF \A i \in DOMAIN refs : declared_ids[refs[i]].initialized THEN 0
    ELSE CHOOSE i \in DOMAIN refs :
            /\ ~declared_ids[refs[i]].initialized
            /\ \A j \in 1..(i - 1) : declared_ids[refs[j]].initialized

\* the evaluations of the identifiers refs from the left, up to the first
\* that is not initialized
Gets(refs) ==
    LET u == FirstUninitialized(refs)
    IN [i \in 1..(IF u = 0 THEN Len(refs) ELSE u) |->
          IF i = u THEN Ev("get", refs[i], 0, 0, FALSE)
          ELSE Ev("get", refs[i], declared_ids[refs[i]].value, 0, TRUE)]

\* the step evaluates the identifiers refs from the left and ends the run
\* at the first that is not initialized, naming it
LeftToRight(refs) ==
    /\ SubSeq(hist', 1, Len(hist) + Len(Gets(refs))) = hist \o Gets(refs)
    /\ (FirstUninitialized(refs) # 0) = (pc' = "exit")
    /\ pc' = "exit" =>
          /\ hist' = hist \o Gets(refs)
          /\ err'.kind = "runtime"
          /\ err'.cause = "uninitialized identifier"
          /\ err'.name = declared_ids[refs[FirstUninitialized(refs)]].name

\* a statement sequence is the next execute call
AtStmtSeq ==
    /\ pc = "execute"
    /\ todo # <<>>
    /\ Head(todo).r = "StmtSeq"

\* C18: a statement sequence executes its first statement and, when
\* that is complete, the rest of the sequence; an expression or comparison
\* evaluates its identifiers in the order written, left operand before right,
\* so the runtime error names the leftmost uninitialized one.
C18_SourceOrderLeftToRight ==
    /\ [][AtStmtSeq =>
             LET n == Head(todo).node IN
             /\ todo' = <<ExFrame("Stmt", n.stmt, FALSE, 0)>>
                        \o (IF IsNone(n.stmt_seq) THEN <<>>
                            ELSE <<ExFrame("StmtSeq", n.stmt_seq, FALSE, 0)>>)
                        \o Tail(todo)
             /\ hist' = hist
             /\ pc' = "execute"]_vars
    /\ [][(pc = "execute" /\ pc' = "execute" /\ todo # <<>>) =>
             /\ Len(todo') >= Len(todo) - 1
             /\ Tail(todo) = SubSeq(todo', Len(todo') - Len(todo) + 2,
                                    Len(todo'))]_vars
    /\ [][AtAssign => LeftToRight(ExpIds(Head(todo).node.expression))]_vars
    /\ [][((AtIf \/ AtLoop) /\ ~IsNone(Head(todo).node.condition.comparison))
             => LeftToRight(CompIds(Head(todo).node.condition.comparison))]_vars

\* X = Y + X with neither initialized: only Y was evaluated and the error
\* names Y
C18_Witness ==
    /\ pc = "exit"
    /\ err.cause = "uninitialized identifier"
    /\ err.name = <<"Y">>
    /\ hist = <<Ev("get", 2, 0, 0, FALSE)>>
    /\ Len(src) = 2
    /\ src[2] = <<"X", " ", "=", " ", "Y", " ", "+", " ", "X", " ", ";",
                  " ", "e", "n", "d", "\n">>

\* the tokens of the current line that the cursor has passed
Delivered == SubSeq(tokenizer.tokens, 1, tokenizer.token_index)

\* the current line holds an illegal token that the cursor has not reached
IllegalAhead ==
    /\ ILLEGAL \in Range(tokenizer.tokens)
    /\ CurrentToken(tokenizer) # ILLEGAL

\* C19: the tokens of a line with an illegal token are the legal tokens
\* before it and then ILLEGAL; while the cursor is before the illegal token
\* parsing goes on or ends in its own context-free or context-sensitive
\* error, and a run ends in the lexical error only with the cursor on the
\* illegal token, every token before it having been passed.
C19_LexicalErrorOnDemand ==
    /\ [](\A i \in DOMAIN tokenizer.tokens :
             IF tokenizer.tokens[i] = ILLEGAL THEN i = Len(tokenizer.tokens)
             ELSE tokenizer.tokens[i] \in 1..EOF)
    /\ [](err.kind = "lexical" =>
             /\ pc = "exit"
             /\ CurrentToken(tokenizer) = ILLEGAL
             /\ Delivered = SubSeq(tokenizer.tokens, 1,
                                   Len(tokenizer.tokens) - 1)
             /\ err.line = tokenizer.line_number
             /\ tokenizer.raised = "SystemExit")
    /\ [](IllegalAhead =>
             /\ err.kind \in {"none", "context-free", "context-sensitive"}
             /\ tokenizer.raised = "none")
    /\ [](err.kind \in {"context-free", "context-sensitive"} =>
             CurrentToken(tokenizer) # ILLEGAL)
    /\ [][(pc = "parse" /\ pc' = "exit" /\ err'.kind # "lexical") =>
             CurrentToken(tokenizer') # ILLEGAL]_vars

\* X = 1 ; x end: the four tokens before x were passed on the second line
\* and the run ended in the lexical error at x
C19_Witness ==
    /\ pc = "exit"
    /\ err.kind = "lexical"
    /\ err.line = 2
    /\ err.name = <<"x">>
    /\ Delivered = <<IDENTIFIER, ASSIGNMENT, INTEGER, SEMICOLON>>
    /\ CurrentToken(tokenizer) = ILLEGAL

\* the numbers of the special symbols
SpecialNumbers == (Len(RESERVED) + 1)..(Len(RESERVED) + Len(SPECIAL))

\* the first character of b makes a longer special symbol of a
Extends(a, b) == \E i \in DOMAIN SPECIAL : SPECIAL[i] = Append(a.s, b.s[1])

\* the tokens of the first line of the file, while the cursor is on it
FirstLineTokens == tokenizer.tokens

\* C20: of two legal tokens a and b written with nothing between them,
\* the tokenizer yields a and then b when one of them is a special symbol
\* and the first character of b does not make a longer special symbol of a;
\* when neither is a special symbol it yields one ILLEGAL token or one merged
\* integer or identifier, never a and then b.
C20_AdjacentTokens ==
    \A a, b \in LegalTokens :
       (src = <<Adjacent(a, b)>> /\ tokenizer.line_number = 1) =>
          IF a.n \in SpecialNumbers \/ b.n \in SpecialNumbers
          THEN ~Extends(a, b) => FirstLineTokens = <<a.n, b.n>>
          ELSE /\ FirstLineTokens # <<a.n, b.n>>
               /\ FirstLineTokens \in {<<ILLEGAL>>, <<INTEGER>>, <<IDENTIFIER>>}

\* the file 'intX': get_token has raised the lexical error on the one
\* illegal token of the line
C20_Witness ==
    /\ src = <<Adjacent([s |-> RESERVED[INT], n |-> INT],
                        [s |-> <<"X">>, n |-> IDENTIFIER])>>
    /\ tokenizer.tokens = <<ILLEGAL>>
    /\ pc = "exit"
    /\ err.kind = "lexical"
    /\ hist = <<Ev("get_token", 0, 0, 0, FALSE)>>

\* every character of w is a decimal digit
AllDigits(w) == \A i \in DOMAIN w : w[i] \in Digits

\* C21: a capital followed by capitals and digits is one IDENTIFIER
\* whose text is the whole run; a run of digits is one INTEGER; a run of
\* digits with a letter right after it is one ILLEGAL token and no INTEGER;
\* a run of digits, white space and an identifier are INTEGER and then
\* IDENTIFIER.
C21_MaximalMunch ==
    /\ \A w \in MunchRuns :
          (src = <<Append(w, "\n")>> /\ tokenizer.line_number = 1) =>
             IF w[1] \in CAPITALS
             THEN /\ tokenizer.tokens = <<IDENTIFIER>>
                  /\ tokenizer.identifiers[0] = w
             ELSE IF AllDigits(w)
             THEN /\ tokenizer.tokens = <<INTEGER>>
                  /\ tokenizer.integers[0] = w
             ELSE /\ tokenizer.tokens = <<ILLEGAL>>
                  /\ \E n \in DOMAIN w :
                        /\ AllDigits(SubSeq(w, 1, n - 1))
                        /\ w[n] \in CAPITALS
                        /\ tokenizer.error_message.text = SubSeq(w, 1, n)
    /\ \A a \in {<<"1">>, <<"1", "2">>}, s \in {" ", "\t"},
          b \in {<<"A">>, <<"A", "B">>, <<"A", "1">>} :
          (src = <<Separated(a, s, b)>> /\ tokenizer.line_number = 1) =>
             /\ tokenizer.tokens = <<INTEGER, IDENTIFIER>>
             /\ tokenizer.integers[0] = a
             /\ tokenizer.identifiers[1] = b

\* the file 'AB12': get_token has returned IDENTIFIER and the name of the
\* identifier is AB12
C21_Witness ==
    /\ src = << <<"A", "B", "1", "2", "\n">> >>
    /\ hist = <<Ev("get_token", 0, IDENTIFIER, 0, TRUE)>>
    /\ tokenizer.token_index = 0
    /\ IdName(tokenizer) = <<"A", "B", "1", "2">>

\* the number of the special symbol that is spelled s
SymbolNumber(s) == Len(RESERVED) + IndexOf(SPECIAL, s)

\* the file is the one line that begins with c and goes on with tail, and
\* the cursor is on that line
OnSymbolLine(c, tail) ==
    /\ src \in { <<<<c>> \o tail \o <<"\n">>>>, <<<<c>> \o tail>> }
    /\ tokenizer.line_number = 1

\* C22: '!', '=', '<' or '>' with '=' right after it is the one token of
\* two characters, and without it the token of one character; '&' or '|'
\* is a token only with the same character right after it, and an ILLEGAL
\* token otherwise, the end of the line included.
C22_TwoCharacterSymbols ==
    \A c \in SymbolStarts, tail \in SymbolTails :
       OnSymbolLine(c, tail) =>
          IF c \in SPECIAL_AMBIGUOUS_FINAL_STATES
          THEN IF tail # <<>> /\ tail[1] = "="
               THEN tokenizer.tokens[1] = SymbolNumber(<<c, "=">>)
               ELSE tokenizer.tokens[1] = SymbolNumber(<<c>>)
          ELSE IF tail # <<>> /\ tail[1] = c
               THEN tokenizer.tokens[1] = SymbolNumber(<<c, c>>)
               ELSE tokenizer.tokens = <<ILLEGAL>>

\* the file '<=X': get_token has returned LESS_THAN_OR_EQUAL for the first
\* token, and the identifier comes next
C22_Witness ==
    /\ src = << <<"<", "=", "X", "\n">> >>
    /\ tokenizer.tokens = <<LESS_THAN_OR_EQUAL, IDENTIFIER>>
    /\ tokenizer.token_index = 0
    /\ hist = <<Ev("get_token", 0, LESS_THAN_OR_EQUAL, 0, TRUE)>>

\* C23: a run of lowercase letters that white space, a special symbol
\* or the end of the line ends is a reserved word exactly when it is spelled
\* as one of the eleven; every other run, the beginning of a reserved word, a
\* reserved word with a letter more or a run that begins none, is one
\* ILLEGAL token.
C23_ReservedWordsOnly ==
    \A r \in LowerRuns, e \in RunEnds :
       (src = <<r \o e>> /\ tokenizer.line_number = 1) =>
          IF r \in Range(RESERVED)
          THEN /\ tokenizer.tokens[1] = IndexOf(RESERVED, r)
               /\ tokenizer.tokens[1] \in 1..Len(RESERVED)
               /\ ILLEGAL \notin Range(tokenizer.tokens)
          ELSE tokenizer.tokens = <<ILLEGAL>>

\* the file 'whilex': get_token has raised the lexical error on the one
\* illegal token, which holds the whole run
C23_Witness ==
    /\ src = << <<"w", "h", "i", "l", "e", "x", "\n">> >>
    /\ tokenizer.tokens = <<ILLEGAL>>
    /\ pc = "exit"
    /\ err.kind = "lexical"
    /\ err.name = <<"w", "h", "i", "l", "e", "x">>

\* a line of the source that holds white space only
Blank(line) == \A i \in DOMAIN line : line[i] \in WHITE_SPACE

\* the first line after line k that holds more than white space, or the
\* line after the last when there is none
LineAfter(k) ==
    LET later == {j \in (k + 1)..Len(src) : ~Blank(src[j])}
    IN IF later = {} THEN Len(src) + 1
       ELSE CHOOSE j \in later : \A i \in later : j <= i

\* C24: while a token of the source is the current token, line_number
\* is the number of the line of the file that holds it, empty lines and lines
\* of white space counted; such lines give no token and no error: the cursor
\* goes from a line to the next line that holds more than white space, and
\* to the line after the last at the end of the file.
C24_LineNumberIsPhysical ==
    /\ [](hist = <<>> => tokenizer.line_number = LineAfter(0))
    /\ []((tokenizer.tokens # <<>> /\ CurrentToken(tokenizer) # EOF) =>
             /\ tokenizer.line_number \in 1..Len(src)
             /\ ~Blank(src[tokenizer.line_number]))
    /\ []((tokenizer.tokens # <<>> /\ CurrentToken(tokenizer) = EOF) =>
             tokenizer.line_number = Len(src) + 1)
    /\ [](err.kind = "lexical" =>
             /\ err.line = tokenizer.line_number
             /\ ~Blank(src[err.line]))
    /\ [][tokenizer'.line_number # tokenizer.line_number =>
             /\ tokenizer.token_index = Len(tokenizer.tokens) - 1
             /\ hist' = <<Ev("skip_token", 0, 0, 0, TRUE)>>
             /\ tokenizer'.line_number = LineAfter(tokenizer.line_number)
             /\ tokenizer'.token_index = 0]_vars

\* a file of an empty line, 'end', a line of white space and 'end': the
\* cursor is on the second 'end' and line_number is 4
C24_Witness ==
    /\ src = << <<"\n">>, Line(<<"end">>), <<" ", "\t", "\n">>,
                Line(<<"end">>) >>
    /\ tokenizer.line_number = 4
    /\ CurrentToken(tokenizer) = END
    /\ hist = <<Ev("skip_token", 0, 0, 0, TRUE)>>

----------------------------------------------------------------------------
(* The grammar of Core as a recogniser that makes no choice: for each      *)
(* non-terminal, the set of places at which a derivation that starts at    *)
(* place i of the token numbers ns can end (the place after its last      *)
(* token).  Every alternative of every rule contributes.                  *)

\* the token numbers and identifier names of one line of the source
LineTokens(line) ==
    LET d == ScanLine(FreshScan, line, 1, 1)
    IN  [i \in 1..Len(d.tokens) |->
            [t |-> d.tokens[i],
             name |-> IF (i - 1) \in DOMAIN d.identifiers
                      THEN d.identifiers[i - 1] ELSE <<>>]]

\* the tokens of a whole file, in order
FileTokens(file) == Flatten([l \in DOMAIN file |-> LineTokens(file[l])])

Is(ns, i, n) == i \in DOMAIN ns /\ ns[i] = n

IsIn(ns, i, set) == i \in DOMAIN ns /\ ns[i] \in set

\* the places after a token of set that follows a place of ends
After(ns, ends, set) == {j + 1 : j \in {k \in ends : IsIn(ns, k, set)}}

COMP_OPS ==
    {NOT_EQUAL, EQUAL, LESS_THAN, GREATER_THAN, LESS_THAN_OR_EQUAL,
     GREATER_THAN_OR_EQUAL}

RECURSIVE ExpEnds(_, _)
RECURSIVE FacEnds(_, _)
RECURSIVE CondEnds(_, _)
RECURSIVE IdListEnds(_, _)
RECURSIVE StmtSeqEnds(_, _)
RECURSIVE DeclSeqEnds(_, _)

\* <op> ::= <int> | <id> | (<exp>)
OpEnds(ns, i) ==
    (IF IsIn(ns, i, {INTEGER, IDENTIFIER}) THEN {i + 1} ELSE {})
    \cup (IF Is(ns, i, LEFT_PARENTHESIS)
          THEN After(ns, ExpEnds(ns, i + 1), {RIGHT_PARENTHESIS})
          ELSE {})

\* <fac> ::= <op> | <op> * <fac>
FacEnds(ns, i) ==
    LET ops == OpEnds(ns, i)
    IN  ops \cup UNION {FacEnds(ns, j) : j \in After(ns, ops, {MULTIPLICATION})}

\* <exp> ::= <fac> | <fac> + <exp> | <fac> - <exp>
ExpEnds(ns, i) ==
    LET facs == FacEnds(ns, i)
    IN  facs \cup UNION {ExpEnds(ns, j) :
                            j \in After(ns, facs, {ADDITION, SUBTRACTION})}

\* <comp> ::= (<op> <comp op> <op>)
CompEnds(ns, i) ==
    IF Is(ns, i, LEFT_PARENTHESIS)
    THEN UNION {After(ns, OpEnds(ns, j), {RIGHT_PARENTHESIS}) :
                   j \in After(ns, OpEnds(ns, i + 1), COMP_OPS)}
    ELSE {}

\* <cond> ::= <comp> | !<cond> | [<cond> && <cond>] | [<cond> || <cond>]
CondEnds(ns, i) ==
    CompEnds(ns, i)
    \cup (IF Is(ns, i, LOGICAL_NOT) THEN CondEnds(ns, i + 1) ELSE {})
    \cup (IF Is(ns, i, LEFT_BRACKET)
          THEN UNION {After(ns, CondEnds(ns, j), {RIGHT_BRACKET}) :
                         j \in After(ns, CondEnds(ns, i + 1),
                                     {LOGICAL_AND, LOGICAL_OR})}
          ELSE {})

\* <id list> ::= <id> | <id>, <id list>
IdListEnds(ns, i) ==
    IF Is(ns, i, IDENTIFIER)
    THEN {i + 1} \cup (IF Is(ns, i + 1, COMMA)
                       THEN IdListEnds(ns, i + 2) ELSE {})
    ELSE {}

\* the places after "end;" that follows a place of ends
AfterEnd(ns, ends) == After(ns, After(ns, ends, {END}), {SEMICOLON})

\* <assign> ::= <id> = <exp>;
AssignEnds(ns, i) ==
    IF Is(ns, i, IDENTIFIER) /\ Is(ns, i + 1, ASSIGNMENT)
    THEN After(ns, ExpEnds(ns, i + 2), {SEMICOLON})
    ELSE {}

\* <in> ::= read <id list>;   <out> ::= write <id list>;
InOutEnds(ns, i) ==
    IF IsIn(ns, i, {READ, WRITE})
    THEN After(ns, IdListEnds(ns, i + 1), {SEMICOLON})
    ELSE {}

\* <loop> ::= while <cond> loop <stmt seq> end;
LoopEnds(ns, i) ==
    IF Is(ns, i, WHILE)
    THEN UNION {AfterEnd(ns, StmtSeqEnds(ns, j)) :
                   j \in After(ns, CondEnds(ns, i + 1), {LOOP})}
    ELSE {}

\* <if> ::= if <cond> then <stmt seq> end;
\*        | if <cond> then <stmt seq> else <stmt seq> end;
IfEnds(ns, i) ==
    IF Is(ns, i, TokIF)
    THEN UNION {LET thens == StmtSeqEnds(ns, j)
                IN  AfterEnd(ns, thens)
                    \cup UNION {AfterEnd(ns, StmtSeqEnds(ns, k)) :
                                   k \in After(ns, thens, {TokELSE})} :
                   j \in After(ns, CondEnds(ns, i + 1), {TokTHEN})}
    ELSE {}

\* <stmt> ::= <assign> | <if> | <loop> | <in> | <out>
StmtEnds(ns, i) ==
    AssignEnds(ns, i) \cup IfEnds(ns, i) \cup LoopEnds(ns, i)
    \cup InOutEnds(ns, i)

\* <stmt seq> ::= <stmt> | <stmt> <stmt seq>
StmtSeqEnds(ns, i) ==
    LET stmts == StmtEnds(ns, i)
    IN  stmts \cup UNION {StmtSeqEnds(ns, j) : j \in stmts}

\* <decl> ::= int <id list>;
DeclEnds(ns, i) ==
    IF Is(ns, i, INT)
    THEN After(ns, IdListEnds(ns, i + 1), {SEMICOLON})
    ELSE {}

\* <decl seq> ::= <decl> | <decl> <decl seq>
DeclSeqEnds(ns, i) ==
    LET decls == DeclEnds(ns, i)
    IN  decls \cup UNION {DeclSeqEnds(ns, j) : j \in decls}

\* <prog> ::= program <decl seq> begin <stmt seq> end
ProgEnds(ns) ==
    IF Is(ns, 1, PROGRAM)
    THEN UNION {After(ns, StmtSeqEnds(ns, j), {END}) :
                   j \in After(ns, DeclSeqEnds(ns, 2), {BEGIN})}
    ELSE {}

\* the names of the identifiers of ts at the places of set
NamesAt(ts, set) ==
    {ts[i].name : i \in {k \in DOMAIN ts \cap set : ts[k].t = IDENTIFIER}}

\* the place of the first begin of ts, or the place after its last token
BeginOf(ts) ==
    IF \E i \in DOMAIN ts : ts[i].t = BEGIN
    THEN CHOOSE i \in DOMAIN ts :
             /\ ts[i].t = BEGIN
             /\ \A k \in 1..(i - 1) : ts[k].t # BEGIN
    ELSE Len(ts) + 1

\* no identifier is declared twice among the first upto tokens
DeclaredOnce(ts, upto) ==
    \A i, k \in 1..(BeginOf(ts) - 1) :
        (/\ i < k
         /\ k <= upto
         /\ ts[i].t = IDENTIFIER
         /\ ts[k].t = IDENTIFIER) => ts[i].name # ts[k].name

\* every identifier used among the first upto tokens is declared
UsesDeclared(ts, upto) ==
    NamesAt(ts, BeginOf(ts)..upto) \subseteq NamesAt(ts, 1..(BeginOf(ts) - 1))

\* the tokens of the source, and their numbers
SrcTokens == FileTokens(src)

Numbers(ts) == [i \in DOMAIN ts |-> ts[i].t]

\* Prog.parse has returned, or has reported an error
ParseOver ==
    \/ pc = "print"
    \/ pc = "exit" /\ err.kind \in {"context-free", "context-sensitive"}

\* the whole source is a program of the grammar that meets the two
\* conditions on identifiers
WellFormed(ts) ==
    /\ (Len(ts) + 1) \in ProgEnds(Numbers(ts))
    /\ DeclaredOnce(ts, Len(ts))
    /\ UsesDeclared(ts, Len(ts))

\* a proper prefix of the source is such a program
WellFormedPrefix(ts) ==
    \E j \in ProgEnds(Numbers(ts)) :
        /\ j <= Len(ts)
        /\ DeclaredOnce(ts, j - 1)
        /\ UsesDeclared(ts, j - 1)

\* C25: when the source holds no illegal token, Prog.parse succeeds exactly
\* when the tokens of the whole source are derivable from <prog> with no
\* identifier declared twice and none used undeclared; a source that goes
\* on after the end of such a program is rejected with a context-free error
C25_ParserAcceptsTheGrammar ==
    (ParseOver /\ ILLEGAL \notin Range(Numbers(SrcTokens))) =>
        /\ (pc = "print") = WellFormed(SrcTokens)
        /\ WellFormedPrefix(SrcTokens) => err.kind = "context-free"

\* Prog.parse has accepted a program with a while loop and an if
C25_Witness ==
    /\ pc = "print"
    /\ WellFormed(SrcTokens)
    /\ \E i \in DOMAIN SrcTokens : SrcTokens[i].t = TokIF
    /\ \E i \in DOMAIN SrcTokens : SrcTokens[i].t = WHILE

\* the parser is about to parse the first statement of a statement
\* sequence and the current token closes the sequence
EmptySeqAhead ==
    /\ stack # <<>>
    /\ Head(stack).r \in {"StmtSeq", "Stmt"}
    /\ Head(stack).s = 1
    /\ tokenizer.tokens # <<>>
    /\ CurrentToken(tokenizer) \in {END, TokELSE}

\* ns holds a word that opens a statement sequence directly before the
\* word that closes it
EmptyPair(ns) ==
    \E i \in 1..(Len(ns) - 1) :
        \/ ns[i] \in {BEGIN, TokTHEN, TokELSE, LOOP} /\ ns[i + 1] = END
        \/ ns[i] = TokTHEN /\ ns[i + 1] = TokELSE

RECURSIVE StmtSeqFull(_)
\* every statement sequence of the tree n holds a statement
StmtSeqFull(n) ==
    /\ n.k = "StmtSeq"
    /\ n.stmt.k = "Stmt"
    /\ CASE n.stmt.alt = "If" ->
              /\ StmtSeqFull(n.stmt.node.then_stmt_seq)
              /\ \/ IsNone(n.stmt.node.else_stmt_seq)
                 \/ StmtSeqFull(n.stmt.node.else_stmt_seq)
         [] n.stmt.alt = "Loop" -> StmtSeqFull(n.stmt.node.stmt_seq)
         [] OTHER -> TRUE
    /\ IsNone(n.stmt_seq) \/ StmtSeqFull(n.stmt_seq)

\* C26: a statement sequence is never empty: when the token where the first
\* statement of a sequence must begin is end or else, the parser builds no
\* node and stops with a context-free error; an accepted program has a
\* declaration, a statement in every statement sequence of its tree, and no
\* opening word directly followed by the closing one among its tokens
C26_StatementSequenceNotEmpty ==
    /\ [][(pc = "parse" /\ EmptySeqAhead) =>
            /\ nodes' = nodes
            /\ \/ pc' = "parse" /\ EmptySeqAhead'
               \/ pc' = "exit" /\ err'.kind = "context-free"]_vars
    /\ [](pc = "print" =>
            /\ program.decl_seq.k = "DeclSeq"
            /\ program.decl_seq.decl.k = "Decl"
            /\ INT \in Range(Numbers(SrcTokens))
            /\ StmtSeqFull(program.stmt_seq)
            /\ ~EmptyPair(Numbers(SrcTokens)))

\* the parser stopped at "then" directly followed by "else"
C26_Witness ==
    /\ pc = "exit"
    /\ err.kind = "context-free"
    /\ EmptySeqAhead
    /\ CurrentToken(tokenizer) = TokELSE
    /\ tokenizer.token_index > 0
    /\ tokenizer.tokens[tokenizer.token_index] = TokTHEN

\* C27: the text Prog.print writes is read back without an error of any
\* kind, and the tree parsed from it has the shape of the tree that was
\* printed: the same nodes, names, numbers and levels, line numbers aside
C27_PrintParseRoundTrip ==
    hist # <<>> =>
        /\ pc # "exit"
        /\ err.kind = "none"
        /\ pc = "open" => Shape(program, declared_ids) = hist[1]

\* a printed program with a two-sided if, a negation inside a bracketed
\* condition and a product in parentheses was read back
C27_Witness ==
    /\ hist # <<>>
    /\ pc = "open"
    /\ Shape(program, declared_ids) = hist[1]
    /\ {TokELSE, LEFT_BRACKET, LOGICAL_NOT, MULTIPLICATION}
           \subseteq Range(Numbers(SrcTokens))
    /\ ~IsNone(hist[1].stmt_seq.stmt.node.condition.left_condition)

\* the second of two runs is under way
SecondRun == hist # <<>> /\ hist[1].e = "run"

\* a is the beginning of b
StartsWith(b, a) == Len(a) <= Len(b) /\ SubSeq(b, 1, Len(a)) = a

\* the tokens of a text are the tokens of the program file
WholeProgram(text) ==
    LET ts == FileTokens(SplitLines(text))
    IN  /\ Numbers(ts) = Numbers(SrcTokens)
        /\ \A i \in DOMAIN ts : ts[i].name = SrcTokens[i].name

\* C28: a second run of the same program on another data file prints the
\* text the first run printed, which is the whole program, and has printed
\* all of it when it opens the data file and whenever it reads from it or
\* ends, a runtime error included
C28_PrintIndependentOfData ==
    SecondRun =>
        /\ err.kind \notin ParseErrors
        /\ pc = "open" => stdout = hist[1].text /\ WholeProgram(stdout)
        /\ (data.state # "unopened" \/ pc \in {"execute", "done", "exit"}) =>
              StartsWith(stdout, hist[1].text)
        /\ (pc \in {"parse", "print"}) => data.state = "unopened"

\* the second run read data and a runtime error ended it
C28_Witness ==
    /\ SecondRun
    /\ pc = "exit"
    /\ err.kind = "runtime"
    /\ data.pos > 0
    /\ StartsWith(stdout, hist[1].text)
    /\ hist[1].text # <<>>

RECURSIVE Margin(_)
\* the number of spaces a line begins with
Margin(line) ==
    IF line # <<>> /\ Head(line) = " " THEN 1 + Margin(Tail(line)) ELSE 0

\* an if or while statement that is open, and the level it stands at
Open(word, level) == [word |-> word, level |-> level]

\* the level of a statement inside the open statements: 1 outside them all,
\* one more than the level of an if, two more than the level of a while
Inside(open) ==
    IF open = <<>> THEN 1
    ELSE Head(open).level + (IF Head(open).word = WHILE THEN 2 ELSE 1)

RECURSIVE LaidOut(_, _)
\* the lines of a printed program stand at the margins of their levels;
\* open holds the statements the first line is inside, the innermost first
LaidOut(lines, open) ==
    IF lines = <<>> THEN open = <<>>
    ELSE LET ns == Numbers(LineTokens(Head(lines)))
             margin == Margin(Head(lines))
         IN  CASE ns = <<>> -> FALSE
               [] ns[1] \in {PROGRAM, BEGIN} ->
                    open = <<>> /\ LaidOut(Tail(lines), open)
               [] ns[1] = INT ->
                    margin = 2 /\ LaidOut(Tail(lines), open)
               [] ns[1] \in {IDENTIFIER, READ, WRITE} ->
                    /\ margin = 2 * Inside(open)
                    /\ LaidOut(Tail(lines), open)
               [] ns[1] = TokIF ->
                    /\ margin = 2 * Inside(open)
                    /\ ns[Len(ns)] = TokTHEN
                    /\ LaidOut(Tail(lines),
                               <<Open(TokIF, Inside(open))>> \o open)
               [] ns[1] = WHILE ->
                    /\ margin = 2 * Inside(open)
                    /\ LOOP \notin Range(ns)
                    /\ Len(lines) > 1
                    /\ Numbers(LineTokens(lines[2])) = <<LOOP>>
                    /\ Margin(lines[2]) = 2 * (Inside(open) + 1)
                    /\ LaidOut(Tail(Tail(lines)),
                               <<Open(WHILE, Inside(open))>> \o open)
               [] ns = <<TokELSE>> ->
                    /\ open # <<>>
                    /\ Head(open).word = TokIF
                    /\ margin = 2 * Head(open).level
                    /\ LaidOut(Tail(lines), open)
               [] ns = <<END, SEMICOLON>> ->
                    /\ open # <<>>
                    /\ margin = 2 * Head(open).level
                    /\ LaidOut(Tail(lines), Tail(open))
               [] ns = <<END>> ->
                    open = <<>> /\ LaidOut(Tail(lines), open)
               [] OTHER -> FALSE

\* C29: in the text Prog.print writes, a declaration begins after two
\* spaces and a statement after 2 x level spaces, the level being 1 at the
\* top, one more inside an if or else body and two more inside a while
\* body; "loop" is alone on the line after its while, one level further in;
\* "else" and "end;" stand at the level of their statement
C29_Indentation ==
    pc = "open" => LaidOut(SplitLines(stdout), <<>>)

\* a program was printed with an assignment at level 6, inside a while
\* that is inside an if that is inside a while
C29_Witness ==
    /\ pc = "open"
    /\ LaidOut(SplitLines(stdout), <<>>)
    /\ \E i \in DOMAIN SplitLines(stdout) :
          /\ Margin(SplitLines(stdout)[i]) = 12
          /\ Numbers(LineTokens(SplitLines(stdout)[i]))[1] = IDENTIFIER

\* the exit status of a run that is over: sys.exit with a message and an
\* exception no one catches give 1, the return of main() gives 0
ExitStatus == IF pc = "exit" THEN 1 ELSE 0

Over == pc \in {"exit", "done"}

\* C30: a run reports at most one error, and the error ends it: the run
\* has an error exactly when it has exited, with a status that is not 0; no
\* step follows the error, so no token is consumed, no statement executes
\* and nothing is written after it; a run that ends with no error returns
\* from main() with status 0
C30_FirstErrorEndsTheRun ==
    /\ [](err.kind # "none" <=> pc = "exit")
    /\ [](Over => (ExitStatus = 0 <=> err.kind = "none"))
    /\ [][err.kind = "none"]_vars
    /\ [][err' # err =>
            /\ pc' = "exit"
            /\ err'.kind \in ParseErrors => stdout' = <<>> /\ hist' = <<>>]_vars

\* a run that printed, executed and wrote output was ended by a runtime
\* error
C30_Witness ==
    /\ pc = "exit"
    /\ err.kind = "runtime"
    /\ ExitStatus = 1
    /\ \E i \in DOMAIN hist : hist[i].e = "write"
    /\ todo # <<>>

\* C31: a run that is over has closed the program file, whichever way it
\* ended; the file is closed once parsing is over; and once it is closed
\* nothing is read from it, so no read of a closed stream raises ValueError
C31_SourceStreamClosed ==
    /\ [](Over => ~tokenizer.stream_open)
    /\ [](pc # "parse" => ~tokenizer.stream_open)
    /\ [](tokenizer.raised # "ValueError" /\ err.kind # "uncaught")
    /\ [][~tokenizer.stream_open =>
            /\ ~tokenizer'.stream_open
            /\ tokenizer'.stream_pos = tokenizer.stream_pos
            /\ tokenizer'.line_number = tokenizer.line_number]_vars

\* a context-sensitive error closed the program file before its last line
\* was read
C31_Witness ==
    /\ pc = "exit"
    /\ err.kind = "context-sensitive"
    /\ ~tokenizer.stream_open
    /\ ~tokenizer.eof
    /\ tokenizer.stream_pos < Len(src)

\* the observations of reads of the data file
DataReads == SelectSeq(hist, LAMBDA e : e.e = "read")

\* C32: the data file is unopened until Prog.parse and Prog.print have
\* returned, is open as long as statements execute, and is closed when a
\* run that opened it is over, by the return of execute or by any runtime
\* error; it goes from unopened to open to closed only, and a closed data
\* file is not read
C32_DataStreamOpenedAndClosed ==
    /\ [](pc \in {"parse", "print", "open"} => data.state = "unopened")
    /\ [](data.state # "unopened" => Parsed /\ stdout # <<>>)
    /\ [](pc = "execute" <=> data.state = "open")
    /\ []((Over /\ data.state # "unopened") => data.state = "closed")
    /\ [](err.kind = "runtime" => data.state = "closed")
    /\ [][data'.state # data.state =>
            \/ data.state = "unopened" /\ data'.state = "open"
            \/ data.state = "open" /\ data'.state = "closed"]_vars
    /\ [][(data'.pos # data.pos \/ DataReads' # DataReads) =>
            data.state = "open"]_vars
    /\ [][data.state = "closed" => data' = data]_vars

\* an invalid line of the data file ended the run, and the file is closed
C32_Witness ==
    /\ pc = "exit"
    /\ err.kind = "runtime"
    /\ err.cause = "input invalid line"
    /\ data.state = "closed"
    /\ data.pos > 1

\* the assignment that is next is NAME = f - e: the value of f and of e
Minuend ==
    Product(FacChain(Head(todo).node.expression.factor, declared_ids))

Subtrahend ==
    RightFold(ExpChain(Head(todo).node.expression.subtract_expression,
                       declared_ids))

\* the if that is next tests ( NAME op literal )
ComparesIdentifier ==
    /\ AtIf
    /\ ~IsNone(Head(todo).node.condition.comparison)
    /\ Head(todo).node.condition.comparison.left_operand.id # 0
    /\ ~IsNone(Head(todo).node.condition.comparison.right_operand.int)

\* the order of the integers a and b under the comparison operator
Holds(operator, a, b) ==
    CASE operator = NOT_EQUAL -> a # b
      [] operator = EQUAL -> a = b
      [] operator = LESS_THAN -> a < b
      [] operator = GREATER_THAN -> b < a
      [] operator = LESS_THAN_OR_EQUAL -> ~(b < a)
      [] operator = GREATER_THAN_OR_EQUAL -> ~(a < b)

\* C33: an assignment NAME = f - e stores the integer f - e, below zero
\* when f is less than e, and fails only on an uninitialized identifier; an
\* identifier with a value below zero is compared as that integer and is
\* written as NAME = -n, n being the digits of its magnitude
C33_NegativeDifference ==
    /\ [][(AtAssign
           /\ ~IsNone(Head(todo).node.expression.subtract_expression)) =>
            \/ /\ pc' = "exit"
               /\ err'.cause = "uninitialized identifier"
            \/ /\ pc' = "execute"
               /\ declared_ids'[Head(todo).node.id].initialized
               /\ declared_ids'[Head(todo).node.id].value
                     = Minuend - Subtrahend
               /\ Minuend < Subtrahend =>
                     declared_ids'[Head(todo).node.id].value < 0]_vars
    /\ [][(ComparesIdentifier /\ pc' # "exit") =>
            LET comparison == Head(todo).node.condition.comparison IN
            todo' = Chosen(Head(todo).node,
                           Holds(comparison.comp_operator.operator,
                                 declared_ids[comparison.left_operand.id].value,
                                 comparison.right_operand.int.value))
                    \o Tail(todo)]_vars
    /\ [][(AtWriteTarget /\ pc' # "exit"
           /\ declared_ids[Head(todo).node.id].value < 0) =>
            LET id == declared_ids[Head(todo).node.id] IN
            stdout' = stdout \o (IF is_output THEN <<>> ELSE Banner)
                      \o id.name \o <<" ", "=", " ", "-">>
                      \o NatToChars(0 - id.value) \o <<"\n">>]_vars

\* X = 1 - 2 has stored -1, ( X < 0 ) was found true and X = -1 is written
C33_Witness ==
    /\ \E i, j, k \in DOMAIN hist :
          /\ i < j /\ j < k
          /\ hist[i] = Ev("assign", 1, 0 - 1, 0, TRUE)
          /\ hist[j] = Ev("if", 0, 1, 0, TRUE)
          /\ hist[k] = Ev("write", 1, 0 - 1, 0, TRUE)
    /\ StartsWith(stdout, <<"p">>)
    /\ SubSeq(stdout, Len(stdout) - 6, Len(stdout))
          = <<"X", " ", "=", " ", "-", "1", "\n">>

RECURSIVE ExpNames(_)
RECURSIVE FacNames(_)

\* the identifiers an operand, a factor and an expression name
OpNames(n) ==
    IF ~IsNone(n.int) THEN {}
    ELSE IF n.id # 0 THEN {n.id}
    ELSE ExpNames(n.parenth_exp.expression)

FacNames(n) ==
    OpNames(n.operand) \cup (IF IsNone(n.factor) THEN {} ELSE FacNames(n.factor))

ExpNames(n) ==
    FacNames(n.factor)
    \cup (IF ~IsNone(n.add_expression) THEN ExpNames(n.add_expression)
          ELSE IF ~IsNone(n.subtract_expression)
          THEN ExpNames(n.subtract_expression)
          ELSE {})

\* the identifiers the assignment that is next names on its right
AssignNames == ExpNames(Head(todo).node.expression)

\* C34: an assignment evaluates its right side with the values and flags
\* the identifiers have before it, the target's included, and then stores:
\* it succeeds exactly when every identifier named on the right is
\* initialized before it, the target then holds the value of the right
\* side over the previous values and no other identifier changes; when it
\* fails, with an uninitialized-identifier error, no identifier changes,
\* the target included
C34_AssignEvaluatesThenStores ==
    [][AtAssign =>
         LET target == Head(todo).node.id IN
         IF \A i \in AssignNames : declared_ids[i].initialized
         THEN /\ pc' = "execute"
              /\ declared_ids'
                    = [declared_ids EXCEPT
                          ![target].initialized = TRUE,
                          ![target].value = RightFold(AssignChain)]
         ELSE /\ pc' = "exit"
              /\ err'.kind = "runtime"
              /\ err'.cause = "uninitialized identifier"
              /\ \E i \in AssignNames :
                    /\ ~declared_ids[i].initialized
                    /\ err'.name = declared_ids[i].name
              /\ declared_ids' = declared_ids]_vars

\* X = X + 1 was run with X uninitialized: the run has ended and X is
\* still uninitialized
C34_Witness ==
    /\ pc = "exit"
    /\ err.cause = "uninitialized identifier"
    /\ todo # <<>>
    /\ Head(todo).r = "Assign"
    /\ Head(todo).node.id \in AssignNames
    /\ declared_ids[Head(todo).node.id].name = err.name
    /\ ~declared_ids[Head(todo).node.id].initialized
    /\ ~IsNone(Head(todo).node.expression.add_expression)
    /\ \A e \in Range(hist) : e.e = "get"

\* what the stage at the top of the parser's stack does
StageNow ==
    LET f == Head(stack) IN
    CASE f.r = "Prog" -> Prog_parse(f)
      [] f.r = "DeclSeq" -> DeclSeq_parse(f)
      [] f.r = "Decl" -> Decl_parse(f)
      [] f.r = "IdList" -> IdList_parse(f)
      [] f.r = "Id" -> Id_parse(f)
      [] f.r = "StmtSeq" -> StmtSeq_parse(f)
      [] f.r = "Stmt" -> Stmt_parse(f)
      [] f.r = "In" -> In_parse(f)
      [] f.r = "Out" -> Out_parse(f)
      [] f.r = "Loop" -> Loop_parse(f)
      [] f.r = "If" -> If_parse(f)
      [] f.r = "Cond" -> Cond_parse(f)
      [] f.r = "Comp" -> Comp_parse(f)
      [] f.r = "CompOp" -> CompOp_parse(f)
      [] f.r = "Assign" -> Assign_parse(f)
      [] f.r = "Exp" -> Exp_parse(f)
      [] f.r = "Fac" -> Fac_parse(f)
      [] f.r = "Op" -> Op_parse(f)
      [] f.r = "ParenthExp" -> ParenthExp_parse(f)
      [] f.r = "Int" -> Int_parse(f)

RECURSIVE CheckerSkips(_, _)
\* the tokens that are current at the calls of skip_token made by
\* consecutive calls of context_free_error_checker, from the tokenizer t
CheckerSkips(t, expected) ==
    IF expected = <<>> \/ t.raised = "ValueError" THEN <<>>
    ELSE IF GetTokenRaises(t) \/ CurrentToken(t) # expected[1][1] THEN <<>>
    ELSE IF expected[1][2] \in {"reserved word", "special symbol", "integer"}
    THEN <<CurrentToken(t)>>
         \o CheckerSkips(SkipToken(t, src), Tail(expected))
    ELSE CheckerSkips(t, Tail(expected))

\* the tokens that are current at the calls of skip_token of the stage o
StageSkips(o) ==
    IF o.peek /\ GetTokenRaises(tokenizer) THEN <<>>
    ELSE CheckerSkips(tokenizer, o.expect)
         \o (LET c == CheckAll(tokenizer, src, o.expect) IN
             IF c.err.kind = "none" /\ c.t.raised # "ValueError"
                /\ o.cs = <<>> /\ o.skip
             THEN <<CurrentToken(c.t)>>
             ELSE <<>>)

\* a parse routine is about to run
Parsing == pc = "parse" /\ stack # <<>>

HasIllegal == ILLEGAL \in Range(Numbers(SrcTokens))

\* the cursor is on an illegal token
OnIllegal ==
    /\ pc = "parse"
    /\ tokenizer.tokens # <<>>
    /\ CurrentToken(tokenizer) = ILLEGAL

\* the run is in the parser or has ended in an error of the parser, and
\* has written, opened and executed nothing
Unparsed ==
    /\ pc \in {"parse", "exit"}
    /\ pc = "exit" => err.kind \in ParseErrors
    /\ IsNone(program)
    /\ stdout = <<>>
    /\ data.state = "unopened"
    /\ hist = <<>>

\* C36: a source with an illegal token is never parsed to the end: its run
\* stays in the parser or has exited with a lexical, context-free or
\* context-sensitive error, and writes nothing (a run starts in that
\* condition and leaves it only by the return of Prog.parse, which no source with an illegal token
\* reaches, and the source does not change); the cursor does not leave an
\* illegal token: a routine that touches the tokenizer there ends the run
\* with the lexical error, which is reported nowhere else
C36_IllegalTokenStopsTheParse ==
    /\ Unparsed
    /\ [][(Unparsed /\ ~Unparsed') => pc' = "print"]_vars
    /\ [](pc = "print" => ~HasIllegal)
    /\ [][src' = src]_vars
    /\ [][OnIllegal =>
            \/ tokenizer' = tokenizer /\ pc' = "parse"
            \/ /\ pc' = "exit"
               /\ err'.kind = "lexical"
               /\ tokenizer'.tokens = tokenizer.tokens
               /\ tokenizer'.token_index = tokenizer.token_index
               /\ tokenizer'.stream_pos = tokenizer.stream_pos]_vars
    /\ [](err.kind = "lexical" =>
            /\ HasIllegal
            /\ CurrentToken(tokenizer) = ILLEGAL)
    /\ [][(pc = "parse" /\ tokenizer' # tokenizer /\ pc' = "parse") =>
            CurrentToken(tokenizer) \notin {ILLEGAL, EOF}]_vars

\* the parser has built part of the tree and passed the first line when it
\* meets the illegal token of the second line, after other tokens of it
C36_Witness ==
    /\ pc = "exit"
    /\ err.kind = "lexical"
    /\ nodes # <<>>
    /\ tokenizer.stream_pos = 2
    /\ tokenizer.token_index > 0
    /\ CurrentToken(tokenizer) = ILLEGAL

\* the token list of t has a token at the cursor, an illegal token only as
\* its last token and the end of the file only as its one token
WellIndexed(t) ==
    /\ t.tokens # <<>>
    /\ t.token_index \in 0..(Len(t.tokens) - 1)
    /\ \A i \in DOMAIN t.tokens :
          /\ t.tokens[i] = ILLEGAL => i = Len(t.tokens)
          /\ t.tokens[i] = EOF => t.tokens = <<EOF>>

\* C37: after the construction of the tokenizer and after every call of
\* skip_token that its client makes with a current token other than the
\* end of the file, the token list is not empty, the cursor is an index of
\* it, an illegal token is its last token and the end of the file is its
\* only token; such a call raises nothing.  (The call made at the end of
\* the file is the one that empties the list and raises ValueError.)
C37_CursorInsideTheTokens ==
    /\ WellIndexed(tokenizer)
    /\ [](tokenizer.raised # "ValueError" => WellIndexed(tokenizer))
    /\ [][(pc = "client" /\ CurrentToken(tokenizer) # EOF) =>
            /\ tokenizer'.raised # "ValueError"
            /\ WellIndexed(tokenizer')]_vars
    /\ [][(pc = "client" /\ CurrentToken(tokenizer) = EOF
           /\ tokenizer' # tokenizer) =>
            /\ tokenizer'.raised = "ValueError"
            /\ tokenizer'.tokens = <<>>]_vars

\* skip_token has moved the cursor to the illegal token that ends a list
\* of two tokens or more
C37_Witness ==
    /\ pc = "client"
    /\ hist = <<Ev("skip_token", 0, 0, 0, TRUE)>>
    /\ Len(tokenizer.tokens) > 1
    /\ tokenizer.token_index = Len(tokenizer.tokens) - 1
    /\ CurrentToken(tokenizer) = ILLEGAL

RECURSIVE ListRefs(_)
RECURSIVE ListTails(_)
RECURSIVE OutsOf(_)

\* the identifiers of an <id list>, left to right
ListRefs(n) ==
    <<n.id>> \o (IF IsNone(n.id_list) THEN <<>> ELSE ListRefs(n.id_list))

\* an <id list> and the lists to the right of each of its identifiers
ListTails(n) ==
    {n} \cup (IF IsNone(n.id_list) THEN {} ELSE ListTails(n.id_list))

\* the write statements of a statement sequence, at any depth
OutsOf(n) ==
    IF IsNone(n) THEN {}
    ELSE (CASE n.stmt.alt = "Out" -> {n.stmt.node}
            [] n.stmt.alt = "Loop" -> OutsOf(n.stmt.node.stmt_seq)
            [] n.stmt.alt = "If" ->
                 OutsOf(n.stmt.node.then_stmt_seq)
                 \cup OutsOf(n.stmt.node.else_stmt_seq)
            [] OTHER -> {})
         \cup OutsOf(n.stmt_seq)

\* the run has ended at a write target that is not initialized
WriteFailed ==
    /\ pc = "exit"
    /\ err.cause = "uninitialized identifier"
    /\ todo # <<>>
    /\ Head(todo).r = "IdList"
    /\ ~Head(todo).is_input

\* the targets to the left of the failing one in the write statement w
LeftOf(w) ==
    SubSeq(ListRefs(w.id_list), 1,
           Len(ListRefs(w.id_list)) - Len(ListRefs(Head(todo).node)))

\* the lines NAME = VALUE of the identifiers refs
LinesOf(refs) ==
    Flatten([i \in DOMAIN refs |->
               declared_ids[refs[i]].name \o <<" ", "=", " ">>
               \o IntToChars(declared_ids[refs[i]].value) \o <<"\n">>])

\* what the targets refs have left in the record of the run
WritesOf(refs) ==
    Flatten([i \in DOMAIN refs |->
               <<Ev("get", refs[i], declared_ids[refs[i]].value, 0, TRUE),
                 Ev("write", refs[i], declared_ids[refs[i]].value, 0, TRUE)>>])

EndsWith(b, a) ==
    Len(a) <= Len(b) /\ SubSeq(b, Len(b) - Len(a) + 1, Len(b)) = a

\* the write events of the run
AllWrites == SelectSeq(hist, LAMBDA e : e.e = "write")

\* C38: when a run ends at a write target that is not initialized, the
\* output ends with the lines of the targets to its left in that statement,
\* in order, and holds no line of the failing target or of one to its
\* right; the banner is in the output, right before those lines when no
\* earlier statement wrote; the step that fails prints the banner if it
\* has not been printed and nothing else
C38_WriteStopsAtUninitializedTarget ==
    /\ [](WriteFailed =>
            \A w \in OutsOf(program.stmt_seq) :
               Head(todo).node \in ListTails(w.id_list) =>
                  /\ is_output
                  /\ BannerAt # {}
                  /\ EndsWith(stdout, LinesOf(LeftOf(w)))
                  /\ EndsWith(hist,
                              WritesOf(LeftOf(w))
                              \o <<Ev("get", Head(todo).node.id, 0, 0, FALSE)>>)
                  /\ Len(AllWrites) = Len(LeftOf(w)) =>
                        stdout = Prog_print(program, declared_ids) \o Banner
                                 \o LinesOf(LeftOf(w)))
    /\ [](WriteFailed =>
            \E w \in OutsOf(program.stmt_seq) :
               Head(todo).node \in ListTails(w.id_list))
    /\ [][(AtWriteTarget
           /\ ~declared_ids[Head(todo).node.id].initialized) =>
            /\ pc' = "exit"
            /\ err'.kind = "runtime"
            /\ err'.cause = "uninitialized identifier"
            /\ err'.name = declared_ids[Head(todo).node.id].name
            /\ todo' = todo
            /\ is_output'
            /\ stdout' = stdout \o (IF is_output THEN <<>> ELSE Banner)]_vars

\* the first write of a run has printed the banner and the line of X and
\* has ended at Y, which is not initialized
C38_Witness ==
    /\ WriteFailed
    /\ err.name = <<"Y">>
    /\ Len(AllWrites) = 1
    /\ EndsWith(stdout, Banner \o <<"X", " ", "=", " ", "1", "\n">>)

\* the tokens the cursor has passed: those of the lines before the current
\* one and those of the current line before the cursor
Consumed ==
    IF tokenizer.eof THEN Len(FileTokens(src))
    ELSE Len(FileTokens(SubSeq(src, 1, tokenizer.stream_pos - 1)))
         + tokenizer.token_index

\* Prog.parse has returned with the end of the file matched, or the run
\* has exited with an error of the parser
ParseEnded ==
    \/ pc = "print" /\ Parsed
    \/ pc = "exit" /\ err.kind \in ParseErrors

\* the routines that are running: one stage of each is on the stack
Running(r) == {i \in DOMAIN stack : stack[i].r = r}

\* no routine has more than n calls running at once
AtMostRunning(n) ==
    \A i \in DOMAIN stack : Cardinality(Running(stack[i].r)) <= n

\* C39: the parse of every source ends, with Prog.parse returned and the
\* end of the file matched or with a lexical, context-free or
\* context-sensitive error, and stays ended; a routine does not run again
\* inside itself before a token is consumed: the calls of one routine that
\* are running at once are at most one more than the tokens consumed, and
\* the cursor never moves back
C39_ParseTerminates ==
    /\ <>ParseEnded
    /\ [][ParseEnded => ParseEnded']_vars
    /\ [](pc = "parse" => AtMostRunning(Consumed + 1))
    /\ [][pc = "parse" =>
            \/ tokenizer'.stream_pos > tokenizer.stream_pos
            \/ tokenizer'.eof
            \/ /\ tokenizer'.stream_pos = tokenizer.stream_pos
               /\ tokenizer'.token_index >= tokenizer.token_index]_vars

\* the parse of a program with a loop in a branch in a loop has ended in
\* success, from a stack that held three calls of StmtSeq.parse at once
C39_Witness ==
    /\ pc = "print"
    /\ Parsed
    /\ program.stmt_seq.stmt.alt = "Loop"
    /\ tokenizer.stream_pos = 1
    /\ Len(src[1]) > 60

====
